---- MODULE Spec2Model ----
(***************************************************************************)
(* Image extraction service: the extraction pipeline of ImageExtractor     *)
(* (deduplication, metadata enrichment, rate limiter) and the streaming    *)
(* image proxy.                                                            *)
(***************************************************************************)
EXTENDS Integers, Sequences, FiniteSets, TLC

\* ------------------------------------------------------------------ bounds
\* Calls of rateLimit that may be waiting on their timer at once (concurrent
\* extract requests).
MaxSleepers == 2
\* Clock advances in one run.
MaxTicks == 2
\* Length of the candidate lists handed to removeDuplicates.
MaxDedupLen == 3
\* Candidates on a scanned page whose probes answer freely.
MaxImages == 3
\* Chunks of an image body that the proxy relays.
MaxChunks == 2
\* the longest list of images on a page of the timed extraction
MaxTimedImages == 2
\* the most elements of a document handed to the scan handlers
MaxElements == 3

\* ------------------------------------------------------- program constants
MAX_REQUESTS_PER_MINUTE == 20
\* The 60000 ms window of rateLimit.
WINDOW_MS == 60000
\* One second, in the clock's unit (Date.now() counts milliseconds).
SECOND_MS == WINDOW_MS \div 60
\* extractWithEnhancedCheerio: "uniqueImages.slice(0, 50)"
METADATA_LIMIT == 50
\* fetchImageMetadata: "const concurrentRequests = 5"
concurrentRequests == 5
\* imageProxy: "const MAX_CACHE_AGE = 86400"
MAX_CACHE_AGE == 86400

VARIABLES
  \* ImageExtractor's limiter fields
  requestCount, lastRequestTime,
  \* the clock (Date.now()) and each caller's position in rateLimit
  now, sleepers,
  \* history of the limiter: what the claims speak about
  callTimes, lastCall, spanOverloaded, everDelayed, passedInWindow,
  nTicks,
  \* one extract call: its position, the scanned candidates, the pipeline's
  \* locals and what it returns
  exPc, images, uniqueImages, toEnrich, batchStart, batch, result, returned,
  \* the outbound calls issued for image metadata and how each probe went
  netCalls, probeLog,
  \* the POST /api/extract request being served, the failure its extraction
  \* threw, the response of the route, and how many times rateLimit returned
  \* for it
  exReq, exError, exRes, limiterPasses,
  \* whether the client of the extraction has closed its connection
  exClosed,
  \* the document that the page fetch returned
  html,
  \* one call of addImageFromUrl: its arguments and the collection it fills
  addIn, allImages,
  \* one proxy call: its position, the configured allow-list, the request,
  \* the upstream response, the outbound requests issued and the response
  \* written to the caller
  pxPc, allowedDomains, pxReq, pxUp, pxFetches, pxRes,
  \* one image-info call: its position, the request, the upstream response,
  \* the HEAD requests issued and the response written to the caller
  infoPc, infoReq, infoUp, infoFetches, infoRes

limiterVars == <<requestCount, lastRequestTime, now, sleepers,
                 callTimes, lastCall, spanOverloaded, everDelayed,
                 passedInWindow, nTicks>>

routeVars == <<exReq, exError, exRes, limiterPasses, exClosed>>

extractVars == <<exPc, html, images, uniqueImages, toEnrich, batchStart,
                 batch, result, returned, netCalls, probeLog, routeVars>>

infoVars == <<infoPc, infoReq, infoUp, infoFetches, infoRes>>

proxyVars == <<pxPc, allowedDomains, pxReq, pxUp, pxFetches, pxRes, infoVars>>

addVars == <<addIn, allImages>>

vars == <<limiterVars, extractVars, proxyVars, addVars>>

\* The amounts by which the clock advances between two events.
TickSteps == {SECOND_MS, WINDOW_MS - SECOND_MS}

\* ------------------------------------------------------- strings, values
\* A string is the sequence of its characters; a URL is cut after its scheme
\* prefix, so that startsWith('data:') reads its first element.
Undefined == <<"undefined">>
\* headers.get() of a header the response does not carry
Null == <<"null">>

Num(n) == [kind |-> "number", v |-> n]
NaN == [kind |-> "NaN", v |-> 0]
NoNumber == [kind |-> "undefined", v |-> 0]

StartsWith(s, prefix) ==
  Len(s) >= Len(prefix) /\ SubSeq(s, 1, Len(prefix)) = prefix

Digits == {"0", "1", "2", "3", "4", "5", "6", "7", "8", "9"}
DigitChars == <<"0", "1", "2", "3", "4", "5", "6", "7", "8", "9">>
DigitValue(c) == CHOOSE n \in 0..9 : DigitChars[n + 1] = c

RECURSIVE SkipSpaces(_)
SkipSpaces(s) ==
  IF s # <<>> /\ Head(s) = " " THEN SkipSpaces(Tail(s)) ELSE s

RECURSIVE ParseDigits(_, _, _)
ParseDigits(s, acc, any) ==
  IF s # <<>> /\ Head(s) \in Digits
  THEN ParseDigits(Tail(s), acc * 10 + DigitValue(Head(s)), TRUE)
  ELSE [any |-> any, v |-> acc]

\* JavaScript's parseInt(s, 10): leading blanks, a sign, the longest run of
\* digits; NaN when there is no digit.
ParseInt(s) ==
  LET t == SkipSpaces(s)
      neg == t # <<>> /\ Head(t) = "-"
      u == IF t # <<>> /\ Head(t) \in {"-", "+"} THEN Tail(t) ELSE t
      d == ParseDigits(u, 0, FALSE)
  IN  IF d.any THEN Num(IF neg THEN 0 - d.v ELSE d.v) ELSE NaN

\* String.prototype.split(sep) for a one-character separator
RECURSIVE SplitOn(_, _, _)
SplitOn(s, sep, cur) ==
  IF s = <<>> THEN <<cur>>
  ELSE IF Head(s) = sep THEN <<cur>> \o SplitOn(Tail(s), sep, <<>>)
  ELSE SplitOn(Tail(s), sep, Append(cur, Head(s)))

Split(s, sep) == SplitOn(s, sep, <<>>)

UpperChar(c) ==
  CASE c = "a" -> "A" [] c = "b" -> "B" [] c = "c" -> "C" [] c = "d" -> "D"
    [] c = "e" -> "E" [] c = "f" -> "F" [] c = "g" -> "G" [] c = "h" -> "H"
    [] c = "i" -> "I" [] c = "j" -> "J" [] c = "k" -> "K" [] c = "l" -> "L"
    [] c = "m" -> "M" [] c = "n" -> "N" [] c = "o" -> "O" [] c = "p" -> "P"
    [] c = "q" -> "Q" [] c = "r" -> "R" [] c = "s" -> "S" [] c = "t" -> "T"
    [] c = "u" -> "U" [] c = "v" -> "V" [] c = "w" -> "W" [] c = "x" -> "X"
    [] c = "y" -> "Y" [] c = "z" -> "Z"
    [] OTHER -> c

ToUpperCase(s) == [k \in 1..Len(s) |-> UpperChar(s[k])]

\* ------------------------------------------------------------ rate limiter

\* ShouldDelay without its test of the elapsed time: a full counter delays the
\* call even after the window has expired.
ShouldDelayAlways(count, timeElapsed) ==
  count > MAX_REQUESTS_PER_MINUTE

\* rateLimit: "if (this.requestCount > this.MAX_REQUESTS_PER_MINUTE && timeElapsed < 60000)"
ShouldDelay(count, timeElapsed) ==
  count > MAX_REQUESTS_PER_MINUTE /\ timeElapsed < WINDOW_MS

\* rateLimit: "const delayMs = 60000 - timeElapsed"
DelayMs(timeElapsed) == WINDOW_MS - timeElapsed

\* rateLimit: "else if (timeElapsed >= 60000)"
WindowExpired(timeElapsed) == timeElapsed >= WINDOW_MS

\* The last MAX_REQUESTS_PER_MINUTE + 1 call times, the newest last.
Remember(times, t) ==
  LET all == Append(times, t)
  IN  IF Len(all) > MAX_REQUESTS_PER_MINUTE + 1 THEN Tail(all) ELSE all

\* MAX_REQUESTS_PER_MINUTE + 1 calls, the newest at the end, lie within span ms.
Within(times, span) ==
  /\ Len(times) = MAX_REQUESTS_PER_MINUTE + 1
  /\ times[Len(times)] - times[1] <= span

LimiterInit ==
  /\ requestCount = 0
  /\ lastRequestTime = 0
  /\ now = 0
  /\ sleepers = <<>>
  /\ callTimes = <<>>
  /\ lastCall = [burst |-> FALSE, delayed |-> FALSE, wakeAt |-> 0,
                 windowEnd |-> 0]
  /\ spanOverloaded = FALSE
  /\ everDelayed = FALSE
  /\ passedInWindow = 0
  /\ nTicks = 0

\* The limiter as earlier extractions left it: untouched, or with its counter
\* at the threshold in the window that began at 0.
LimiterInitAfter(count) ==
  /\ requestCount = count
  /\ lastRequestTime = 0
  /\ now = 0
  /\ sleepers = <<>>
  /\ callTimes = [k \in 1..count |-> 0]
  /\ lastCall = [burst |-> FALSE, delayed |-> FALSE, wakeAt |-> 0,
                 windowEnd |-> IF count = 0 THEN 0 ELSE WINDOW_MS]
  /\ spanOverloaded = FALSE
  /\ everDelayed = FALSE
  /\ passedInWindow = count
  /\ nTicks = 0

\* The wake-up times of the waiting calls, kept in ascending order (the order
\* in which the timers fire).
RECURSIVE InsertSorted(_, _)
InsertSorted(q, t) ==
  IF q = <<>> \/ t < Head(q) THEN <<t>> \o q
  ELSE <<Head(q)>> \o InsertSorted(Tail(q), t)

RemoveAt(q, i) == SubSeq(q, 1, i - 1) \o SubSeq(q, i + 1, Len(q))

\* rateLimit up to its await: the synchronous part runs without interleaving.
\* A delayed call waits on its timer; any other call returns at once.
Call ==
  /\ LET count == requestCount + 1
         timeElapsed == now - lastRequestTime
         times == Remember(callTimes, now)
         delayed == ShouldDelay(count, timeElapsed)
         expired == ~delayed /\ WindowExpired(timeElapsed)
     IN  /\ delayed => Len(sleepers) < MaxSleepers
         /\ requestCount' = IF expired THEN 1 ELSE count
         /\ lastRequestTime' = IF expired THEN now ELSE lastRequestTime
         /\ sleepers' = IF delayed
                        THEN InsertSorted(sleepers, now + DelayMs(timeElapsed))
                        ELSE sleepers
         /\ callTimes' = times
         /\ lastCall' = [burst |-> Within(times, SECOND_MS),
                         delayed |-> delayed,
                         wakeAt |-> IF delayed THEN now + DelayMs(timeElapsed) ELSE 0,
                         windowEnd |-> lastRequestTime + WINDOW_MS]
         /\ spanOverloaded' = (spanOverloaded \/ Within(times, WINDOW_MS - 1))
         /\ everDelayed' = (everDelayed \/ delayed)
         /\ passedInWindow' = IF delayed THEN passedInWindow
                              ELSE IF expired THEN 1 ELSE passedInWindow + 1
  /\ UNCHANGED <<now, nTicks, extractVars, proxyVars, addVars>>

\* rateLimit after its await: the timer fired (a timer never fires early), the
\* call resets the limiter and returns.
Wake(i) ==
  /\ now >= sleepers[i]
  /\ requestCount' = 1
  /\ lastRequestTime' = now
  /\ sleepers' = RemoveAt(sleepers, i)
  /\ passedInWindow' = IF lastRequestTime = now THEN passedInWindow + 1 ELSE 1
  /\ UNCHANGED <<now, callTimes, lastCall, spanOverloaded, everDelayed,
                 nTicks, extractVars, proxyVars, addVars>>

\* Date.now() advances.
Tick(d) ==
  /\ nTicks < MaxTicks
  /\ now' = now + d
  /\ nTicks' = nTicks + 1
  /\ UNCHANGED <<requestCount, lastRequestTime, sleepers, callTimes,
                 lastCall, spanOverloaded, everDelayed, passedInWindow,
                 extractVars, proxyVars, addVars>>

LimiterNext ==
  \/ Call
  \/ \E i \in 1..Len(sleepers) : Wake(i)
  \/ \E d \in TickSteps : Tick(d)

\* ------------------------------------------------------- image records
\* The fields of an Image that the pipeline after the scan reads or writes:
\* url, one field it must leave alone (alt), type and size.
\* A URL or a reference is the sequence of its lexemes: the scheme with its
\* colon and slashes, the host, then the separators "/", ".", "?", "#" and
\* the text between them; an extension is spelled letter by letter.
DataUrl == <<"data:", "R0lGODlh">>
UrlA == <<"https://", "h", "/", "a", ".", "p", "n", "g">>
UrlAUpper == <<"https://", "h", "/", "A", ".", "p", "n", "g">>
UrlB == <<"http://", "h", "/", "b">>

\* Pages of more than a batch and of more than METADATA_LIMIT candidates are
\* made of numbered URLs http://fNN.
FillerUrl(n) == <<"http://", "f", DigitChars[(n \div 10) + 1], DigitChars[(n % 10) + 1]>>
IsFiller(url) == Len(url) = 4 /\ url[2] = "f"

\* The schemes of the model's URLs; those of the first set are followed by
\* a host.
HostSchemes == {"http://", "https://", "ftp://"}
Schemes == HostSchemes \cup {"data:", "javascript:", "mailto:"}

Contains(s, x) == \E k \in 1..Len(s) : s[k] = x

\* Position of the last x in s, 0 when there is none.
LastIndexOf(s, x) ==
  IF Contains(s, x)
  THEN CHOOSE k \in 1..Len(s) : s[k] = x /\ \A j \in (k + 1)..Len(s) : s[j] # x
  ELSE 0

\* Position of the first x in s, Len(s) + 1 when there is none.
IndexOf(s, x) ==
  IF Contains(s, x)
  THEN CHOOSE k \in 1..Len(s) : s[k] = x /\ \A j \in 1..(k - 1) : s[j] # x
  ELSE Len(s) + 1

\* new URL(url) succeeds: the text begins with a scheme, a scheme that takes
\* a host has one, and the host is well-formed ("[" stands for a host that
\* is not).
ParsesAsUrl(url) ==
  /\ url # <<>>
  /\ url[1] \in Schemes
  /\ url[1] \in HostSchemes => Len(url) >= 2
  /\ ~Contains(url, "[")

InvalidUrl == <<"TypeError: Invalid URL">>

\* The base's directory: the base up to its last "/" (scheme, host and "/"
\* when its path is empty), query and fragment dropped.
BaseDir(base) ==
  LET cut == IF IndexOf(base, "?") < IndexOf(base, "#")
             THEN IndexOf(base, "?") ELSE IndexOf(base, "#")
      path == SubSeq(base, 1, cut - 1)
      slash == LastIndexOf(path, "/")
  IN  IF slash = 0 THEN SubSeq(base, 1, 2) \o <<"/">> ELSE SubSeq(path, 1, slash)

\* The URL parser writes a blank inside a reference as %20.
PercentEncode(url) == [k \in 1..Len(url) |-> IF url[k] = " " THEN "%20" ELSE url[k]]

\* new URL(url, base).href for an http/https base: an absolute url stands
\* for itself, "//host..." takes the base's scheme, "/path" the base's
\* scheme and host, any other text is appended to the base's directory; a
\* malformed one throws.
NewUrl(url, base) ==
  IF url = <<>> THEN base
  ELSE IF url[1] \in Schemes
  THEN IF ParsesAsUrl(url) THEN url ELSE InvalidUrl
  ELSE IF Contains(url, "[") THEN InvalidUrl
  ELSE IF url[1] = "//"
  THEN IF Len(url) >= 2 THEN <<base[1]>> \o PercentEncode(Tail(url)) ELSE InvalidUrl
  ELSE IF url[1] = "/" THEN SubSeq(base, 1, 2) \o PercentEncode(url)
  ELSE BaseDir(base) \o PercentEncode(url)

\* resolveUrl: "if (url.startsWith('http://') || url.startsWith('https://')
\* || url.startsWith('data:')) return url", else new URL(url, base).href,
\* and the url itself when that throws.
ResolveUrl(base, url) ==
  IF \/ StartsWith(url, <<"http://">>) \/ StartsWith(url, <<"https://">>)
     \/ StartsWith(url, <<"data:">>)
  THEN url
  ELSE LET href == NewUrl(url, base)
       IN  IF href = InvalidUrl THEN url ELSE href

\* getFilenameFromUrl: 'data-image' for a data URL, the last segment of the
\* pathname, 'image' when that is empty or the url does not parse.
GetFilenameFromUrl(url) ==
  IF StartsWith(url, <<"data:">>) THEN <<"data-image">>
  ELSE IF ~ParsesAsUrl(url) THEN <<"image">>
  ELSE LET rest == IF url[1] \in HostSchemes THEN SubSeq(url, 3, Len(url))
                   ELSE Tail(url)
           cut == IF IndexOf(rest, "?") < IndexOf(rest, "#")
                  THEN IndexOf(rest, "?") ELSE IndexOf(rest, "#")
           pathname == SubSeq(rest, 1, cut - 1)
           filename == SubSeq(pathname, LastIndexOf(pathname, "/") + 1, Len(pathname))
       IN  IF filename = <<>> THEN <<"image">> ELSE filename

\* path.extname: from the last "." of the name on, empty when there is none
\* or when the name only begins with it.
ExtName(filename) ==
  LET dot == LastIndexOf(filename, ".")
  IN  IF dot <= 1 THEN <<>> ELSE SubSeq(filename, dot, Len(filename))

\* The scan's "type": "fileExt ? fileExt.slice(1).toUpperCase() : undefined"
TypeOfUrl(url) ==
  LET fileExt == ExtName(GetFilenameFromUrl(url))
  IN  IF fileExt = <<>> THEN Undefined ELSE ToUpperCase(Tail(fileExt))

\* The record the scan pushes, as imageSchema.parse returns it: "size:
\* undefined, type", and the schema's defaults for the format and the
\* sourceType, which the scan does not set.
MakeImage(url, alt) ==
  [url |-> url, alt |-> alt, type |-> TypeOfUrl(url), size |-> NoNumber,
   format |-> "unknown", sourceType |-> "img"]

\* ------------------------------------------------------------- the scan
\* An element of the fetched document: its tag, its alt text (a number
\* stands for the text, 0 for none) and the values of the attributes its
\* handler reads, in the order in which it reads them.  An absent attribute
\* is Undefined, an empty one <<>>.
Element(tag, alt, attrs) == [tag |-> tag, alt |-> alt, attrs |-> attrs]

\* <img>: src, data-src, data-lazy-src, data-original, data-srcset,
\* data-original-src, data-fallback-src, srcset
Img(src, dataSrc, srcset, alt) ==
  Element("img", alt, <<src, dataSrc, Undefined, Undefined, Undefined,
                        Undefined, Undefined, srcset>>)
\* <source> inside <picture> or <video>: srcset, src, data-src
Source(srcset, src, dataSrc) == Element("source", 0, <<srcset, src, dataSrc>>)
\* An element with a background: the url(...) of its style attribute's
\* background declaration, and its data-background / data-bg attribute
Styled(bg, dataBg) == Element("styled", 0, <<bg, dataBg>>)
\* <style>: the url(...) values of its text
StyleTag(urls) == Element("style", 0, urls)
\* <link rel="stylesheet">: href
Link(href) == Element("link", 0, <<href>>)

\* Truthiness of an attribute value
Present(v) == v # Undefined /\ v # <<>>

\* String.prototype.trim for blanks
RECURSIVE TrimEnd(_)
TrimEnd(s) ==
  IF s # <<>> /\ s[Len(s)] = " " THEN TrimEnd(SubSeq(s, 1, Len(s) - 1)) ELSE s
Trim(s) == TrimEnd(SkipSpaces(s))

\* "s.trim().split(' ')[0]"
FirstWord(s) == LET t == Trim(s) IN SubSeq(t, 1, IndexOf(t, " ") - 1)

\* "srcset.split(',').map(s => s.trim().split(' ')[0])"
SrcsetUrls(srcset) ==
  LET parts == Split(srcset, ",") IN [k \in 1..Len(parts) |-> FirstWord(parts[k])]

\* imageSchema's "url: z.string().url()": the text must parse as a URL.
SchemaAcceptsUrl(url) == ParsesAsUrl(url)

\* One source url of an element: resolveUrl, then imageSchema.parse; the
\* record is pushed, or the catch around the parse skips it.
Candidate(base, sourceUrl, alt) ==
  LET imageUrl == ResolveUrl(base, sourceUrl)
  IN  IF SchemaAcceptsUrl(imageUrl) THEN <<MakeImage(imageUrl, alt)>> ELSE <<>>

\* The non-empty source urls of a list, each as a candidate.
RECURSIVE Candidates(_, _, _)
Candidates(base, sourceUrls, alt) ==
  IF sourceUrls = <<>> THEN <<>>
  ELSE (IF Head(sourceUrls) = <<>> THEN <<>>
        ELSE Candidate(base, Head(sourceUrls), alt))
       \o Candidates(base, Tail(sourceUrls), alt)

\* $('img').each: every populated source attribute, split like a srcset
\* when it contains a comma.
RECURSIVE ScanImgSources(_, _, _)
ScanImgSources(base, possibleSources, alt) ==
  IF possibleSources = <<>> THEN <<>>
  ELSE LET src == Head(possibleSources)
           srcUrls == IF Contains(src, ",") THEN SrcsetUrls(src) ELSE <<src>>
       IN  (IF Present(src) THEN Candidates(base, srcUrls, alt) ELSE <<>>)
           \o ScanImgSources(base, Tail(possibleSources), alt)

\* $('picture source, video source').each: every url of the srcset, then
\* "src || dataSrc".
ScanSource(base, el) ==
  LET srcset == el.attrs[1]
      sourceUrl == IF Present(el.attrs[2]) THEN el.attrs[2] ELSE el.attrs[3]
  IN  (IF Present(srcset) THEN Candidates(base, SrcsetUrls(srcset), 0) ELSE <<>>)
      \o (IF Present(sourceUrl) THEN Candidate(base, sourceUrl, 0) ELSE <<>>)

\* The elements with a background: the style's url, then data-background.
ScanStyled(base, el) ==
  (IF Present(el.attrs[1]) THEN Candidate(base, el.attrs[1], 0) ELSE <<>>)
  \o (IF Present(el.attrs[2]) THEN Candidate(base, el.attrs[2], 0) ELSE <<>>)

Letters ==
  {"a", "b", "c", "d", "e", "f", "g", "h", "i", "j", "k", "l", "m", "n", "o",
   "p", "q", "r", "s", "t", "u", "v", "w", "x", "y", "z"}
LowerChar(c) ==
  IF \E l \in Letters : UpperChar(l) = c /\ l # c
  THEN CHOOSE l \in Letters : UpperChar(l) = c
  ELSE c
ToLowerCase(s) == [k \in 1..Len(s) |-> LowerChar(s[k])]

\* The text after the last "." of s, in lower case (for the /i patterns).
LowerSuffix(s) ==
  LET dot == LastIndexOf(s, ".")
  IN  IF dot = 0 THEN <<>> ELSE ToLowerCase(SubSeq(s, dot + 1, Len(s)))

\* "urlValue.match(/\.(woff2?|eot|ttf|otf)(\?.*)?$/i)"
IsFontUrl(urlValue) ==
  LowerSuffix(SubSeq(urlValue, 1, IndexOf(urlValue, "?") - 1))
    \in {<<"w", "o", "f", "f">>, <<"w", "o", "f", "f", "2">>, <<"e", "o", "t">>,
         <<"t", "t", "f">>, <<"o", "t", "f">>}

\* "href.match(/\.(jpg|jpeg|png|gif|webp|svg|avif)$/i)"
IsImageHref(href) ==
  LowerSuffix(href)
    \in {<<"j", "p", "g">>, <<"j", "p", "e", "g">>, <<"p", "n", "g">>,
         <<"g", "i", "f">>, <<"w", "e", "b", "p">>, <<"s", "v", "g">>,
         <<"a", "v", "i", "f">>}

RECURSIVE ScanCssUrls(_, _)
ScanCssUrls(base, urls) ==
  IF urls = <<>> THEN <<>>
  ELSE (IF IsFontUrl(Head(urls)) THEN <<>> ELSE Candidate(base, Head(urls), 0))
       \o ScanCssUrls(base, Tail(urls))

\* $('style, link[rel="stylesheet"]').each
ScanCss(base, el) ==
  IF el.tag = "style" THEN ScanCssUrls(base, el.attrs)
  ELSE IF Present(el.attrs[1]) /\ IsImageHref(el.attrs[1])
       THEN Candidate(base, el.attrs[1], 0)
       ELSE <<>>

ScanElement(base, el) ==
  CASE el.tag = "img" -> ScanImgSources(base, el.attrs, el.alt)
    [] el.tag = "source" -> ScanSource(base, el)
    [] el.tag = "styled" -> ScanStyled(base, el)
    [] OTHER -> ScanCss(base, el)

\* One .each(...) pass: the elements with one of the tags, in document
\* order.
RECURSIVE ScanPass(_, _, _)
ScanPass(base, doc, tags) ==
  IF doc = <<>> THEN <<>>
  ELSE (IF Head(doc).tag \in tags THEN ScanElement(base, Head(doc)) ELSE <<>>)
       \o ScanPass(base, Tail(doc), tags)

\* The four passes of extractWithEnhancedCheerio, which fill images.
ScanDocument(base, doc) ==
  ScanPass(base, doc, {"img"}) \o ScanPass(base, doc, {"source"})
  \o ScanPass(base, doc, {"styled"}) \o ScanPass(base, doc, {"style", "link"})

RECURSIVE SeqsUpTo(_, _)
SeqsUpTo(S, n) ==
  IF n = 0 THEN {<<>>}
  ELSE LET shorter == SeqsUpTo(S, n - 1)
       IN  shorter \cup {Append(q, x) : q \in shorter, x \in S}

\* ------------------------------------------------------- removeDuplicates

\* removeDuplicates with the filter's test inverted for repeats: the last
\* occurrence of each url survives instead of the first.
RECURSIVE KeepLast(_)
KeepLast(imgs) ==
  IF imgs = <<>> THEN <<>>
  ELSE IF \E k \in 2..Len(imgs) : imgs[k].url = Head(imgs).url
       THEN KeepLast(Tail(imgs))
       ELSE <<Head(imgs)>> \o KeepLast(Tail(imgs))

RemoveDuplicatesLast(imgs) == KeepLast(imgs)

\* removeDuplicates with a seen-set that is emptied whenever a repeat is
\* skipped: a third copy of a url survives the first run and not the second.
RECURSIVE FilterForgetful(_, _)
FilterForgetful(imgs, seen) ==
  IF imgs = <<>> THEN <<>>
  ELSE IF Head(imgs).url \in seen
       THEN FilterForgetful(Tail(imgs), {})
       ELSE <<Head(imgs)>> \o FilterForgetful(Tail(imgs), seen \cup {Head(imgs).url})

RemoveDuplicatesForgetful(imgs) == FilterForgetful(imgs, {})

\* images.filter(image => { if (seen.has(image.url)) return false;
\*                          seen.add(image.url); return true; })
RECURSIVE FilterUnseen(_, _)
FilterUnseen(imgs, seen) ==
  IF imgs = <<>> THEN <<>>
  ELSE IF Head(imgs).url \in seen
       THEN FilterUnseen(Tail(imgs), seen)
       ELSE <<Head(imgs)>> \o FilterUnseen(Tail(imgs), seen \cup {Head(imgs).url})

RemoveDuplicates(imgs) == FilterUnseen(imgs, {})

\* ------------------------------------------------------- metadata probes

\* IsDataUrl with the data-URL test lost: every record is probed.
IsDataUrlNever(url) == FALSE

\* fetchSingleImageMetadata: "image.url.startsWith('data:')"
IsDataUrl(url) == StartsWith(url, <<"data:">>)

\* Array.prototype.slice(from, to) on a sequence (0-based, end excluded)
Slice(q, from, to) ==
  LET hi == IF to < Len(q) THEN to ELSE Len(q)
  IN  IF from >= hi THEN <<>> ELSE SubSeq(q, from + 1, hi)

\* The response headers a server may send.
ContentTypes ==
  {Null, <<"i", "m", "a", "g", "e", "/", "p", "n", "g">>, <<"t", "e", "x", "t">>}
ContentLengths == {Null, <<>>, <<"1", "2">>, <<"-", "5">>, <<"x">>}
BodyLengths == {0, 2}

Answer(kind, ct, cl) == [kind |-> kind, contentType |-> ct, contentLength |-> cl]

\* What a HEAD or GET may come back with: the fetch throws (network error, or
\* the 5000 ms abort), a status outside 200-299, or a 2xx with headers.
\* node-fetch rejects a url that is not http/https; the servers of the
\* numbered URLs and of the markup pages always answer 200 with
\* Content-Length: 12.
Answers(url) ==
  IF url[1] \notin {"http://", "https://"} THEN {Answer("error", Null, Null)}
  ELSE IF IsFiller(url) \/ url \notin {UrlA, UrlB}
  THEN {Answer("ok", Null, <<"1", "2">>)}
  ELSE {Answer("error", Null, Null), Answer("notok", Null, Null)}
       \cup {Answer("ok", ct, cl) : ct \in ContentTypes, cl \in ContentLengths}

\* "size: contentLength ? parseInt(contentLength, 10) : undefined"
SizeFromHeader(contentLength) ==
  IF contentLength = Null \/ contentLength = <<>> THEN NoNumber
  ELSE ParseInt(contentLength)

\* "type: contentType ? contentType.split('/')[1]?.toUpperCase() : image.type"
TypeFromHeader(contentType, imageType) ==
  IF contentType = Null \/ contentType = <<>> THEN imageType
  ELSE LET parts == Split(contentType, "/")
       IN  IF Len(parts) >= 2 THEN ToUpperCase(parts[2]) ELSE Undefined

\* The record a 2xx HEAD yields: { ...image, size, type }
HeadEnriched(image, answer) ==
  [image EXCEPT !.size = SizeFromHeader(answer.contentLength),
                !.type = TypeFromHeader(answer.contentType, image.type)]

\* The record a 2xx GET with a read body yields: size is buffer.byteLength
GetEnriched(image, contentType, byteLength) ==
  [image EXCEPT !.size = Num(byteLength),
                !.type = TypeFromHeader(contentType, image.type)]

\* UnchangedOnFailure answering a failed probe with a zero size.
UnchangedOnFailureZeroed(image) == [image EXCEPT !.size = Num(0)]

\* "return image" of the failure paths: !response.ok after HEAD or GET, and
\* the outer catch
UnchangedOnFailure(image) == image

NoLog == [head |-> "none", get |-> "none", body |-> "none"]

\* fetchSingleImageMetadata up to its first await: a data URL returns at
\* once, any other URL has its HEAD issued.
StartProbe(image) ==
  IF IsDataUrl(image.url)
  THEN [image |-> image, pc |-> "done", out |-> image, contentType |-> Null,
        log |-> NoLog]
  ELSE [image |-> image, pc |-> "head", out |-> image, contentType |-> Null,
        log |-> NoLog]

\* A batch that reaches one record into the next one.
BatchOfWide(imgs, i) == Slice(imgs, i, i + concurrentRequests + 1)

\* "images.slice(i, i + concurrentRequests)"
BatchOf(imgs, i) == Slice(imgs, i, i + concurrentRequests)

\* "batch.map(image => this.fetchSingleImageMetadata(image))"
StartBatch(imgs, i) ==
  LET b == BatchOf(imgs, i) IN [k \in 1..Len(b) |-> StartProbe(b[k])]

HeadsOf(b) == {<<"HEAD", b[k].image.url>> : k \in {j \in 1..Len(b) : b[j].pc = "head"}}

\* The url of the page that is extracted, the base of its references.
PageUrl == <<"https://", "ex.com", "/", "page">>

\* The documents a page fetch may return: every list of up to MaxImages <img>
\* elements over three URLs, lists of <img> with numbered URLs longer than a
\* batch and longer than METADATA_LIMIT, and three pages of mixed markup.
PageUrls == {DataUrl, UrlA, UrlB}
FillerLens == {concurrentRequests + 1, METADATA_LIMIT, METADATA_LIMIT + 1}
ImgDoc(urls) == [k \in 1..Len(urls) |-> Img(urls[k], Undefined, Undefined, k)]

\* <img src="/a.jpg" data-src="/a-hd.jpg">
\* <picture><source srcset="/b.webp 1x, /b2.webp 2x"></picture>
\* <div style="background-image:url('/c.png')">
ScenarioPage ==
  <<Img(<<"/", "a", ".", "j", "p", "g">>, <<"/", "a-hd", ".", "j", "p", "g">>,
        Undefined, 0),
    Source(<<"/", "b", ".", "w", "e", "b", "p", " ", "1x", ",", " ",
             "/", "b2", ".", "w", "e", "b", "p", " ", "2x">>,
           Undefined, Undefined),
    Styled(<<"/", "c", ".", "p", "n", "g">>, Undefined)>>

\* <img src="//[" srcset=","> <img src="https://h/a.png">: a reference that
\* does not resolve and a srcset of empty entries, then a good image.
BrokenPage ==
  <<Img(<<"//", "[">>, Undefined, <<",">>, 1),
    Img(UrlA, Undefined, Undefined, 2)>>

\* References with other schemes, a font and an image in a <style>, and a
\* <link> to an image.
SchemePage ==
  <<Img(<<"javascript:", "void(0)">>, <<>>, Undefined, 1),
    Source(Undefined, Undefined, <<"ftp://", "h", "/", "a", ".", "p", "n", "g">>),
    Styled(<<"mailto:", "x@y", ".", "c", "o", "m">>, DataUrl),
    StyleTag(<<<<"/", "f", ".", "W", "O", "F", "F", "2", "?", "v">>,
               <<"s", ".", "g", "i", "f">>>>),
    Link(<<"/", "i", ".", "s", "v", "g">>),
    Link(<<"/", "main", ".", "c", "s", "s">>)>>

\* <img srcset="/a.jpg 2x"> <img src="/i,w_1/b.jpg">
\* <img srcset="/c.jpg 1x, /d.jpg 2x">: a srcset of one entry, a src whose
\* path has a comma, and a srcset of two entries.
SrcsetPage ==
  <<Img(Undefined, Undefined, <<"/", "a", ".", "j", "p", "g", " ", "2x">>, 1),
    Img(<<"/", "i", ",", "w_1", "/", "b", ".", "j", "p", "g">>, Undefined, Undefined, 2),
    Img(Undefined, Undefined,
        <<"/", "c", ".", "j", "p", "g", " ", "1x", ",", " ",
          "/", "d", ".", "j", "p", "g", " ", "2x">>, 3)>>

MarkupPages == {ScenarioPage, BrokenPage, SchemePage, SrcsetPage}

Pages ==
  {ImgDoc(urls) : urls \in SeqsUpTo(PageUrls, MaxImages)}
  \cup {ImgDoc([k \in 1..n |-> FillerUrl(k)]) : n \in FillerLens}
  \cup MarkupPages

\* ------------------------------------------------------ POST /api/extract
\* The url of the request body: one that the schema or new URL rejects, or a
\* valid one.
ExtractRequests == {"malformed", "url"}

\* How the page fetch may fail.  An error's message is held as the set of
\* the marks the route looks for that it contains.  node-fetch words a DNS
\* or connect failure "request to <url> failed, reason: <cause>", and a
\* non-2xx page throws "Failed to fetch URL: <statusText>".
PageFailure(category, message) == [category |-> category, message |-> message]
NoFailure == PageFailure("none", {})
PageFailures ==
  {PageFailure("network", {"getaddrinfo", "ENOTFOUND"}),
   PageFailure("network", {"ECONNREFUSED"}),
   PageFailure("network", {"ECONNRESET"}),
   PageFailure("timeout", {"ETIMEDOUT"}),
   PageFailure("upstream", {"Forbidden"}),
   PageFailure("upstream", {"Not Found"}),
   PageFailure("upstream", {"Internal Server Error"})}

\* The route's response: its status, the message of an error body (for the
\* 500 of the last branch the error's own message, held in detail), and the
\* images of a success body.
RouteResponse(status, message) ==
  [status |-> status, message |-> message, detail |-> {}, images |-> <<>>]
NoRouteResponse == RouteResponse(0, "")
\* "return res.status(200).json({ url, images })", with a message when the
\* list is empty
RouteOk(imgs) ==
  [status |-> 200,
   message |-> IF imgs = <<>> THEN "No images found on this URL." ELSE "",
   detail |-> {},
   images |-> imgs]

\* ErrorResponse answering a failed extraction like an empty page.
ErrorResponseEmptyList(message) == RouteOk(<<>>)

\* The route's catch: the first matching test of errorMessage.includes(...)
\* decides the response.
Includes(message, marks) == message \cap marks # {}
ErrorResponse(message) ==
  IF Includes(message, {"Forbidden", "403"})
  THEN RouteResponse(403, "This website has blocked our access.")
  ELSE IF Includes(message, {"Not Found", "404"})
  THEN RouteResponse(404, "Website not found.")
  ELSE IF Includes(message, {"ENOTFOUND", "getaddrinfo"})
  THEN RouteResponse(404, "Domain not found.")
  ELSE IF Includes(message, {"timeout", "ETIMEDOUT", "ECONNREFUSED"})
  THEN RouteResponse(504, "Connection to website timed out.")
  ELSE [RouteResponse(500, "errorMessage") EXCEPT !.detail = message]

RouteInit ==
  /\ exReq = "none"
  /\ exClosed = FALSE
  /\ exError = NoFailure
  /\ exRes = NoRouteResponse
  /\ limiterPasses = 0

ExtractInit ==
  /\ exPc = "start"
  /\ html = <<>>
  /\ images = <<>>
  /\ uniqueImages = <<>>
  /\ toEnrich = <<>>
  /\ batchStart = 0
  /\ batch = <<>>
  /\ result = <<>>
  /\ returned = <<>>
  /\ netCalls = {}
  /\ probeLog = <<>>
  /\ RouteInit

\* POST /api/extract up to the first await of the extraction: the body is
\* validated (a malformed url is answered with 400 and nothing else happens),
\* then extractImagesFromUrl runs rateLimit up to its await.  A call that is
\* not delayed goes on to issue the page fetch.
ExtractRequest(req) ==
  /\ exPc = "start"
  /\ exReq' = req
  /\ LET count == requestCount + 1
         timeElapsed == now - lastRequestTime
         delayed == ShouldDelay(count, timeElapsed)
         expired == ~delayed /\ WindowExpired(timeElapsed)
     IN  IF req = "malformed"
         THEN /\ exRes' = RouteResponse(400, "Invalid URL format. Please provide a valid URL.")
              /\ exPc' = "rejected"
              /\ UNCHANGED <<requestCount, lastRequestTime, sleepers, limiterPasses>>
         ELSE /\ requestCount' = IF expired THEN 1 ELSE count
              /\ lastRequestTime' = IF expired THEN now ELSE lastRequestTime
              /\ sleepers' = IF delayed
                             THEN InsertSorted(sleepers, now + DelayMs(timeElapsed))
                             ELSE sleepers
              /\ limiterPasses' = IF delayed THEN limiterPasses ELSE limiterPasses + 1
              /\ exPc' = IF delayed THEN "limited" ELSE "page"
              /\ UNCHANGED exRes
  /\ UNCHANGED <<html, images, uniqueImages, toEnrich, batchStart, batch, result,
                 returned, netCalls, probeLog, exError, exClosed, now, callTimes,
                 lastCall, spanOverloaded, everDelayed, passedInWindow, nTicks,
                 proxyVars, addVars>>

\* The timer of the delayed rateLimit fires, the clock having reached its
\* time: the limiter is reset, rateLimit returns and the page fetch is
\* issued.
RateLimitElapsed ==
  /\ exPc = "limited"
  /\ now' = IF now >= Head(sleepers) THEN now ELSE Head(sleepers)
  /\ requestCount' = 1
  /\ lastRequestTime' = now'
  /\ sleepers' = Tail(sleepers)
  /\ limiterPasses' = limiterPasses + 1
  /\ exPc' = "page"
  /\ UNCHANGED <<html, images, uniqueImages, toEnrich, batchStart, batch, result,
                 returned, netCalls, probeLog, exReq, exClosed, exError, exRes,
                 callTimes, lastCall, spanOverloaded, everDelayed,
                 passedInWindow, nTicks, proxyVars, addVars>>

\* extractWithEnhancedCheerio after the page arrived: the scan fills images,
\* then removeDuplicates, slice(0, 50) and fetchImageMetadata up to its first
\* await (the first batch is started), or to its return when there is nothing
\* to probe.
PageFetched(page) ==
  /\ exPc = "page"
  /\ html' = page
  /\ images' = ScanDocument(PageUrl, page)
  /\ uniqueImages' = RemoveDuplicates(images')
  /\ toEnrich' = Slice(uniqueImages', 0, METADATA_LIMIT)
  /\ batchStart' = 0
  /\ batch' = StartBatch(toEnrich', 0)
  /\ netCalls' = HeadsOf(batch')
  /\ exPc' = IF toEnrich' = <<>> THEN "done" ELSE "batch"
  /\ exRes' = IF toEnrich' = <<>> THEN RouteOk(<<>>) ELSE exRes
  /\ UNCHANGED <<result, returned, probeLog, exReq, exClosed, exError, limiterPasses,
                 limiterVars, proxyVars, addVars>>

\* The page fetch throws or "if (!response.ok) throw": the error leaves
\* extractWithEnhancedCheerio, is wrapped by extractImagesFromUrl and is
\* answered by the route's catch.
PageFailed(failure) ==
  /\ exPc = "page"
  /\ exPc' = "failed"
  /\ exError' = failure
  /\ exRes' = ErrorResponse(failure.message)
  /\ UNCHANGED <<html, images, uniqueImages, toEnrich, batchStart, batch, result,
                 returned, netCalls, probeLog, exReq, exClosed, limiterPasses,
                 limiterVars, proxyVars, addVars>>

SetProbe(k, p) == batch' = [batch EXCEPT ![k] = p]

\* HeadResponse falling back to the GET after every HEAD that is not a 2xx.
HeadResponseFallsBack(k, answer) ==
  /\ exPc = "batch"
  /\ batch[k].pc = "head"
  /\ LET p == batch[k]
         lg == [p.log EXCEPT !.head = answer.kind]
     IN  IF answer.kind \in {"error", "notok"}
         THEN /\ SetProbe(k, [p EXCEPT !.pc = "get", !.log = lg])
              /\ netCalls' = netCalls \cup {<<"GET", p.image.url>>}
         ELSE /\ SetProbe(k, [p EXCEPT !.pc = "done", !.log = lg,
                                       !.out = HeadEnriched(p.image, answer)])
              /\ UNCHANGED netCalls
  /\ UNCHANGED <<exPc, html, images, uniqueImages, toEnrich, batchStart, result,
                 returned, probeLog, routeVars, limiterVars,
                 proxyVars, addVars>>

\* The HEAD of probe k settles: on a throw the catch issues the GET, a
\* non-2xx returns the image, a 2xx returns the enriched record.
HeadResponse(k, answer) ==
  /\ exPc = "batch"
  /\ batch[k].pc = "head"
  /\ LET p == batch[k]
         lg == [p.log EXCEPT !.head = answer.kind]
     IN  CASE answer.kind = "error" ->
                /\ SetProbe(k, [p EXCEPT !.pc = "get", !.log = lg])
                /\ netCalls' = netCalls \cup {<<"GET", p.image.url>>}
           [] answer.kind = "notok" ->
                /\ SetProbe(k, [p EXCEPT !.pc = "done", !.log = lg,
                                         !.out = UnchangedOnFailure(p.image)])
                /\ UNCHANGED netCalls
           [] OTHER ->
                /\ SetProbe(k, [p EXCEPT !.pc = "done", !.log = lg,
                                         !.out = HeadEnriched(p.image, answer)])
                /\ UNCHANGED netCalls
  /\ UNCHANGED <<exPc, html, images, uniqueImages, toEnrich, batchStart, result,
                 returned, probeLog, routeVars, limiterVars,
                 proxyVars, addVars>>

\* The GET of probe k settles: a throw reaches the outer catch, a non-2xx
\* returns the image, a 2xx goes on to read the body.
GetResponse(k, answer) ==
  /\ exPc = "batch"
  /\ batch[k].pc = "get"
  /\ LET p == batch[k]
         lg == [p.log EXCEPT !.get = answer.kind]
     IN  IF answer.kind = "ok"
         THEN SetProbe(k, [p EXCEPT !.pc = "body", !.log = lg,
                                    !.contentType = answer.contentType])
         ELSE SetProbe(k, [p EXCEPT !.pc = "done", !.log = lg,
                                    !.out = UnchangedOnFailure(p.image)])
  /\ UNCHANGED <<exPc, html, images, uniqueImages, toEnrich, batchStart, result,
                 returned, netCalls, probeLog, routeVars, limiterVars,
                 proxyVars, addVars>>

\* "await response.arrayBuffer()" settles: the body was read (byteLength
\* bytes), or reading it threw and the outer catch returns the image.
BodyRead(k, ok, byteLength) ==
  /\ exPc = "batch"
  /\ batch[k].pc = "body"
  /\ LET p == batch[k]
     IN  IF ok
         THEN SetProbe(k, [p EXCEPT !.pc = "done", !.log.body = "ok",
                                    !.out = GetEnriched(p.image, p.contentType, byteLength)])
         ELSE /\ byteLength = 0
              /\ SetProbe(k, [p EXCEPT !.pc = "done", !.log.body = "error",
                                       !.out = UnchangedOnFailure(p.image)])
  /\ UNCHANGED <<exPc, html, images, uniqueImages, toEnrich, batchStart, result,
                 returned, netCalls, probeLog, routeVars, limiterVars,
                 proxyVars, addVars>>

\* Outs collecting the records newest first (unshift for push).
OutsReversed(b) == [k \in 1..Len(b) |-> b[Len(b) + 1 - k].out]

\* What Promise.all resolves to: the probes' records in the batch's order.
Outs(b) == [k \in 1..Len(b) |-> b[k].out]

\* Promise.all resolved: "result.push(...batchResults)", then the pause
\* before the next batch, or the return after the last.
BatchSettled ==
  /\ exPc = "batch"
  /\ \A k \in 1..Len(batch) : batch[k].pc = "done"
  /\ LET all == result \o Outs(batch)
         more == batchStart + concurrentRequests < Len(toEnrich)
     IN  /\ result' = all
         /\ probeLog' = probeLog \o [k \in 1..Len(batch) |-> batch[k].log]
         /\ batch' = <<>>
         /\ exPc' = IF more THEN "pause" ELSE "done"
         /\ returned' = IF more THEN returned ELSE all
         /\ exRes' = IF more THEN exRes ELSE RouteOk(all)
  /\ UNCHANGED <<html, images, uniqueImages, toEnrich, batchStart, netCalls, exReq, exClosed,
                 exError, limiterPasses, limiterVars, proxyVars, addVars>>

\* The 300 ms pause elapsed: the loop's next turn starts the next batch.
PauseElapsed ==
  /\ exPc = "pause"
  /\ LET i == batchStart + concurrentRequests
         next == StartBatch(toEnrich, i)
     IN  /\ batchStart' = i
         /\ batch' = next
         /\ netCalls' = netCalls \cup HeadsOf(next)
  /\ exPc' = "batch"
  /\ UNCHANGED <<html, images, uniqueImages, toEnrich, result, returned, probeLog,
                 routeVars, limiterVars,
                 proxyVars, addVars>>

ExtractNext ==
  \/ \E req \in ExtractRequests : ExtractRequest(req)
  \/ RateLimitElapsed
  \/ \E page \in Pages : PageFetched(page)
  \/ \E failure \in PageFailures : PageFailed(failure)
  \/ \E k \in 1..Len(batch) : \E a \in Answers(batch[k].image.url) : HeadResponse(k, a)
  \/ \E k \in 1..Len(batch) : \E a \in Answers(batch[k].image.url) : GetResponse(k, a)
  \/ \E k \in 1..Len(batch) : \E n \in BodyLengths : BodyRead(k, TRUE, n)
  \/ \E k \in 1..Len(batch) : BodyRead(k, FALSE, 0)
  \/ BatchSettled
  \/ PauseElapsed

\* ------------------------------------------------- the extraction's timers
\* "setTimeout(() => controller.abort(), 5000)" before the HEAD fires while
\* the HEAD is pending: fetch rejects with an AbortError.
Aborted == Answer("error", Null, Null)
HeadTimeout(k) == k <= Len(batch) /\ HeadResponse(k, Aborted)

\* The timer set before the GET fires while the GET is pending.  It is
\* cleared as soon as fetch resolves, before the body is read; the page fetch
\* has no timer at all.
GetTimeout(k) == k <= Len(batch) /\ GetResponse(k, Aborted)

\* The pages of the timed extraction: lists of <img> that fit in one batch,
\* so that fetchImageMetadata's loop takes one turn and never pauses.
TimedPages == {ImgDoc(urls) : urls \in SeqsUpTo(PageUrls, MaxTimedImages)}

\* The steps that the process takes by itself, whatever the remote hosts
\* do: its timers and the continuations of settled promises.
TimerSteps ==
  \/ RateLimitElapsed
  \/ \E k \in 1..concurrentRequests : HeadTimeout(k)
  \/ \E k \in 1..concurrentRequests : GetTimeout(k)
  \/ BatchSettled

\* The steps that hang on a remote host: it may take any of them, or none.
RemoteSteps ==
  \/ \E page \in TimedPages : PageFetched(page)
  \/ \E failure \in PageFailures : PageFailed(failure)
  \/ \E k \in 1..Len(batch) : \E a \in Answers(batch[k].image.url) : HeadResponse(k, a)
  \/ \E k \in 1..Len(batch) : \E a \in Answers(batch[k].image.url) : GetResponse(k, a)
  \/ \E k \in 1..Len(batch) : \E n \in BodyLengths : BodyRead(k, TRUE, n)
  \/ \E k \in 1..Len(batch) : BodyRead(k, FALSE, 0)

TimedNext ==
  \/ \E req \in ExtractRequests : ExtractRequest(req)
  \/ TimerSteps
  \/ RemoteSteps

\* ---------------------------------------------------- client disconnect
\* The client closes its connection while its extraction is under way.  The
\* route registers no listener for it and hands no signal to the extractor:
\* nothing in the extraction reads it.
ClientDisconnects ==
  /\ exPc \in {"limited", "page", "batch", "pause"}
  /\ ~exClosed
  /\ exClosed' = TRUE
  /\ UNCHANGED <<exPc, html, images, uniqueImages, toEnrich, batchStart, batch,
                 result, returned, netCalls, probeLog, exReq, exError, exRes,
                 limiterPasses, limiterVars, proxyVars, addVars>>

CancelNext == ExtractNext \/ ClientDisconnects

\* removeDuplicates applied to a candidate list.
DedupUrls == {DataUrl, UrlA, UrlAUpper}
DedupInputs == SeqsUpTo({MakeImage(u, alt) : u \in DedupUrls, alt \in {1, 2}}, MaxDedupLen)

DedupInit ==
  /\ exPc = "scanned"
  /\ html = <<>>
  /\ images \in DedupInputs
  /\ uniqueImages = <<>>
  /\ toEnrich = <<>>
  /\ batchStart = 0
  /\ batch = <<>>
  /\ result = <<>>
  /\ returned = <<>>
  /\ netCalls = {}
  /\ probeLog = <<>>
  /\ RouteInit

Deduplicate ==
  /\ exPc = "scanned"
  /\ uniqueImages' = RemoveDuplicates(images)
  /\ exPc' = "deduped"
  /\ UNCHANGED <<html, images, toEnrich, batchStart, batch, result, returned,
                 netCalls, probeLog, routeVars, limiterVars, proxyVars, addVars>>

\* ------------------------------------------------------------ image proxy
\* A request's url parameter, by what decodeURIComponent and new URL make of
\* it: empty, a malformed escape (decodeURIComponent throws), unparseable (an
\* absent parameter decodes to the text "undefined", which is unparseable
\* too), or a URL with its protocol and hostname.  A hostname is the sequence
\* of its labels and dots.
ExCom == <<"ex", ".", "com">>
ProxyRequest(form, protocol, hostname) ==
  [form |-> form, protocol |-> protocol, hostname |-> hostname]
ProxyRequests ==
  {ProxyRequest(f, "", <<>>) : f \in {"empty", "badEscape", "unparseable"}}
  \cup {ProxyRequest("url", pr, h) :
          pr \in {"http:", "https:", "ftp:"},
          h \in {ExCom, <<"img", ".">> \o ExCom, <<"notex", ".", "com">>}}

\* The configurations of ALLOWED_DOMAINS: empty as shipped, or one domain.
AllowLists == {<<>>, <<ExCom>>}

EndsWith(s, suffix) ==
  Len(s) >= Len(suffix) /\ SubSeq(s, Len(s) - Len(suffix) + 1, Len(s)) = suffix

\* DomainAllowed with the membership test lost: every host passes.
DomainAllowedAny(allowed, domain) == TRUE

\* "ALLOWED_DOMAINS.some(allowedDomain => domain === allowedDomain ||
\*                       domain.endsWith(`.${allowedDomain}`))"
DomainAllowed(allowed, domain) ==
  \E k \in 1..Len(allowed) :
    domain = allowed[k] \/ EndsWith(domain, <<".">> \o allowed[k])

ImagePrefix == <<"i", "m", "a", "g", "e", "/">>
ImagePng == ImagePrefix \o <<"p", "n", "g">>
TextHtml == <<"t", "e", "x", "t", "/", "h", "t", "m", "l">>

\* IsImageContentType testing only that a content-type is present.
IsImageContentTypeAny(contentType) == contentType # Null

\* "!contentType || !contentType.startsWith('image/')", negated
IsImageContentType(contentType) ==
  contentType # Null /\ contentType # <<>> /\ StartsWith(contentType, ImagePrefix)

\* What the upstream fetch may come back with: a throw (an abort on timeout,
\* or another error), or a response with its status, headers and body stream.
Upstream(kind, status, ct, cl, hasBody) ==
  [kind |-> kind, status |-> status, contentType |-> ct, contentLength |-> cl,
   hasBody |-> hasBody]
NoUpstream == Upstream("none", 0, Null, Null, FALSE)
UpstreamAnswers ==
  {Upstream(k, 0, Null, Null, FALSE) : k \in {"abort", "error"}}
  \cup {Upstream("response", 404, ct, Null, TRUE) : ct \in {Null, TextHtml}}
  \cup {Upstream("response", 200, ct, cl, b) :
          ct \in {Null, ImagePng, TextHtml, <<"i", "m", "a", "g", "e">>},
          cl \in {Null, <<"1", "2">>},
          b \in BOOLEAN}

ResponseOk(status) == status >= 200 /\ status <= 299

\* The response to the caller: the status set (0: none set, 200 is implied
\* when the body starts), the headers set with setHeader, the JSON error
\* body if one was sent, the image bytes relayed, and whether the response
\* was ended or destroyed.
NoResponse ==
  [status |-> 0, contentType |-> Null, cacheControl |-> 0,
   contentLength |-> Null, error |-> "", bytes |-> 0, headersSent |-> FALSE,
   state |-> "open", sends |-> 0]

\* res.status(code).json({ error }): one complete response; json() sets the
\* Content-Type and Content-Length of its own body and leaves the other
\* headers as setHeader left them.
Json(res, code, error) ==
  [res EXCEPT !.status = code, !.error = error, !.headersSent = TRUE,
              !.contentType = <<"application/json">>,
              !.contentLength = <<"length of the JSON body">>,
              !.state = "ended", !.sends = @ + 1]

ProxyInit ==
  /\ pxPc = "start"
  /\ allowedDomains \in AllowLists
  /\ pxReq = ProxyRequest("empty", "", <<>>)
  /\ pxUp = NoUpstream
  /\ pxFetches = 0
  /\ pxRes = NoResponse

\* proxyImage up to "await fetch(imageUrl, options)": the url parameter is
\* decoded and validated; a rejected request is answered, an admitted one
\* has its GET issued.
ProxyRequestArrives(req) ==
  /\ pxPc = "start"
  /\ pxReq' = req
  /\ LET reject(code, error) ==
           /\ pxRes' = Json(pxRes, code, error)
           /\ pxPc' = "done"
           /\ UNCHANGED pxFetches
     IN  CASE req.form = "badEscape" -> reject(500, "Failed to proxy image")
           [] req.form = "empty" -> reject(400, "Missing URL parameter")
           [] req.form = "unparseable" -> reject(400, "Invalid URL format")
           [] req.protocol \notin {"http:", "https:"} ->
                reject(400, "Invalid URL protocol, only HTTP and HTTPS are supported")
           [] Len(allowedDomains) > 0 /\ ~DomainAllowed(allowedDomains, req.hostname) ->
                reject(403, "Domain not allowed for security reasons")
           [] OTHER ->
                /\ pxFetches' = pxFetches + 1
                /\ pxPc' = "fetching"
                /\ UNCHANGED pxRes
  /\ UNCHANGED <<allowedDomains, pxUp, infoVars, limiterVars, extractVars, addVars>>

\* proxyImage after the fetch settled: a throw reaches the catch; a response
\* is checked (ok, content-type), the headers are set and the body is piped.
ProxyFetchSettled(up) ==
  /\ pxPc = "fetching"
  /\ pxUp' = up
  /\ LET headers == [pxRes EXCEPT !.contentType = up.contentType,
                                  !.cacheControl = MAX_CACHE_AGE,
                                  !.contentLength =
                                     IF up.contentLength = Null \/ up.contentLength = <<>>
                                     THEN @ ELSE up.contentLength]
     IN  CASE up.kind = "abort" ->
                pxRes' = Json(pxRes, 504, "Request timed out") /\ pxPc' = "done"
           [] up.kind = "error" ->
                pxRes' = Json(pxRes, 500, "Failed to proxy image") /\ pxPc' = "done"
           [] ~ResponseOk(up.status) ->
                pxRes' = Json(pxRes, up.status, "Failed to fetch image") /\ pxPc' = "done"
           [] ~IsImageContentType(up.contentType) ->
                /\ pxRes' = Json(pxRes, 400, "URL does not point to a valid image")
                /\ pxPc' = "done"
           [] ~up.hasBody ->
                /\ pxRes' = Json(headers, 500, "Failed to get image data stream")
                /\ pxPc' = "done"
           [] OTHER ->
                pxRes' = headers /\ pxPc' = "streaming"
  /\ UNCHANGED <<allowedDomains, pxReq, pxFetches, infoVars, limiterVars, extractVars, addVars>>

\* The pipe relays one chunk: the first write sends the headers with the
\* implied status 200.
ProxyChunk ==
  /\ pxPc = "streaming"
  /\ pxRes.bytes < MaxChunks
  /\ pxRes' = [pxRes EXCEPT !.bytes = @ + 1, !.headersSent = TRUE,
                            !.status = 200]
  /\ UNCHANGED <<pxPc, allowedDomains, pxReq, pxUp, pxFetches, infoVars, limiterVars,
                 extractVars, addVars>>

\* The upstream body ended: the pipe ends the response.
ProxyStreamEnd ==
  /\ pxPc = "streaming"
  /\ pxRes' = [pxRes EXCEPT !.headersSent = TRUE, !.status = 200,
                            !.state = "ended", !.sends = @ + 1]
  /\ pxPc' = "done"
  /\ UNCHANGED <<allowedDomains, pxReq, pxUp, pxFetches, infoVars, limiterVars,
                 extractVars, addVars>>

\* ProxyStreamError whose catch answers without looking at res.headersSent.
ProxyStreamErrorAnswers(abort) ==
  /\ pxPc = "streaming"
  /\ pxRes' = IF abort THEN Json(pxRes, 504, "Request timed out")
              ELSE Json(pxRes, 500, "Failed to proxy image")
  /\ pxPc' = "done"
  /\ UNCHANGED <<allowedDomains, pxReq, pxUp, pxFetches, infoVars, limiterVars,
                 extractVars, addVars>>

\* The pipe fails (upstream or caller side): it destroys the response and
\* rejects; the catch answers only "if (!res.headersSent)".
ProxyStreamError(abort) ==
  /\ pxPc = "streaming"
  /\ pxRes' = IF pxRes.headersSent
              THEN [pxRes EXCEPT !.state = "destroyed"]
              ELSE IF abort THEN Json(pxRes, 504, "Request timed out")
                   ELSE Json(pxRes, 500, "Failed to proxy image")
  /\ pxPc' = "done"
  /\ UNCHANGED <<allowedDomains, pxReq, pxUp, pxFetches, infoVars, limiterVars,
                 extractVars, addVars>>

\* ----------------------------------------------------------- getImageInfo
\* The characters of a header value as one string, for table lookups.
RECURSIVE Join(_)
Join(chars) == IF chars = <<>> THEN "" ELSE Head(chars) \o Join(Tail(chars))

\* imageProxy's MIME_TO_FORMAT_MAP
MIME_TO_FORMAT_MAP_PROXY ==
  [m \in {"image/jpeg", "image/jpg", "image/png", "image/gif", "image/webp",
          "image/svg+xml", "image/avif", "image/bmp", "image/x-icon",
          "image/vnd.microsoft.icon", "image/tiff", "image/heic",
          "image/heif"} |->
     CASE m = "image/jpeg" -> "jpeg"
       [] m = "image/jpg" -> "jpg"
       [] m = "image/png" -> "png"
       [] m = "image/gif" -> "gif"
       [] m = "image/webp" -> "webp"
       [] m = "image/svg+xml" -> "svg"
       [] m = "image/avif" -> "avif"
       [] m = "image/bmp" -> "bmp"
       [] m = "image/x-icon" -> "ico"
       [] m = "image/vnd.microsoft.icon" -> "ico"
       [] m = "image/tiff" -> "tiff"
       [] m = "image/heic" -> "heic"
       [] m = "image/heif" -> "heif"]

\* "let format = 'unknown'; if (contentType && contentType in
\*  MIME_TO_FORMAT_MAP) format = MIME_TO_FORMAT_MAP[contentType]"
InfoFormat(contentType) ==
  IF contentType # Null /\ contentType # <<>>
     /\ Join(contentType) \in DOMAIN MIME_TO_FORMAT_MAP_PROXY
  THEN MIME_TO_FORMAT_MAP_PROXY[Join(contentType)]
  ELSE "unknown"

\* The response of the info call: status, the error of an error body, or
\* the fields of the information body.
NoInfoResponse ==
  [status |-> 0, error |-> "", mimeType |-> Null, format |-> "",
   size |-> NoNumber, sends |-> 0]

InfoError(res, code, error) ==
  [res EXCEPT !.status = code, !.error = error, !.sends = @ + 1]

InfoInit ==
  /\ infoPc = "start"
  /\ infoReq = ProxyRequest("empty", "", <<>>)
  /\ infoUp = NoUpstream
  /\ infoFetches = 0
  /\ infoRes = NoInfoResponse

\* getImageInfo up to "await fetch(imageUrl, options)": the url parameter
\* is decoded and parsed; nothing else is checked before fetch is called.
\* node-fetch sends the HEAD request of an http/https url and rejects any
\* other protocol without sending.
InfoRequestArrives(req) ==
  /\ infoPc = "start"
  /\ infoReq' = req
  /\ LET reject(code, error) ==
           /\ infoRes' = InfoError(infoRes, code, error)
           /\ infoPc' = "done"
           /\ UNCHANGED infoFetches
     IN  CASE req.form = "badEscape" -> reject(500, "Failed to get image information")
           [] req.form = "empty" -> reject(400, "Missing URL parameter")
           [] req.form = "unparseable" -> reject(400, "Invalid URL format")
           [] OTHER ->
                /\ infoFetches' = IF req.protocol \in {"http:", "https:"}
                                  THEN infoFetches + 1 ELSE infoFetches
                /\ infoPc' = "fetching"
                /\ UNCHANGED infoRes
  /\ UNCHANGED <<infoUp, pxPc, allowedDomains, pxReq, pxUp, pxFetches, pxRes,
                 limiterVars, extractVars, addVars>>

\* getImageInfo after the fetch settled: a throw reaches the catch (500), a
\* non-2xx response is answered with its status, a 2xx one with the
\* information read from its headers.
InfoFetchSettled(up) ==
  /\ infoPc = "fetching"
  /\ infoReq.protocol \notin {"http:", "https:"} => up.kind = "error"
  /\ infoUp' = up
  /\ infoRes' =
       IF up.kind \in {"abort", "error"}
       THEN InfoError(infoRes, 500, "Failed to get image information")
       ELSE IF ~ResponseOk(up.status)
       THEN InfoError(infoRes, up.status, "Failed to fetch image info")
       ELSE [infoRes EXCEPT !.status = 200,
                            !.mimeType = up.contentType,
                            !.format = InfoFormat(up.contentType),
                            !.size = SizeFromHeader(up.contentLength),
                            !.sends = @ + 1]
  /\ infoPc' = "done"
  /\ UNCHANGED <<infoReq, infoFetches, pxPc, allowedDomains, pxReq, pxUp,
                 pxFetches, pxRes, limiterVars, extractVars, addVars>>

ProxyNext ==
  \/ \E req \in ProxyRequests : ProxyRequestArrives(req)
  \/ \E up \in UpstreamAnswers : ProxyFetchSettled(up)
  \/ ProxyChunk
  \/ ProxyStreamEnd
  \/ \E abort \in BOOLEAN : ProxyStreamError(abort)
  \/ \E req \in ProxyRequests : InfoRequestArrives(req)
  \/ \E up \in UpstreamAnswers : InfoFetchSettled(up)

\* -------------------------------------------------------- addImageFromUrl
\* constants.ts: FORMAT_TO_MIME_MAP
FORMAT_TO_MIME_MAP ==
  [f \in {"jpeg", "jpg", "png", "gif", "webp", "svg", "avif", "bmp", "ico",
          "tiff", "heic", "heif"} |->
     CASE f = "jpeg" -> "image/jpeg"
       [] f = "jpg" -> "image/jpeg"
       [] f = "png" -> "image/png"
       [] f = "gif" -> "image/gif"
       [] f = "webp" -> "image/webp"
       [] f = "svg" -> "image/svg+xml"
       [] f = "avif" -> "image/avif"
       [] f = "bmp" -> "image/bmp"
       [] f = "ico" -> "image/x-icon"
       [] f = "tiff" -> "image/tiff"
       [] f = "heic" -> "image/heic"
       [] f = "heif" -> "image/heif"]

\* constants.ts: MIME_TO_FORMAT_MAP (the same entries as the proxy's copy)
MIME_TO_FORMAT_MAP == MIME_TO_FORMAT_MAP_PROXY

\* imageFormatEnum and the sourceType enum of imageSchema
ImageFormats == DOMAIN FORMAT_TO_MIME_MAP \cup {"unknown"}
SourceTypes == {"img", "background", "svg", "picture", "canvas", "iframe", "other"}

\* The property names that every object literal inherits and that are
\* spelled in lower case: "key in object" is true for them as well.
InheritedKeys == {"constructor", "__proto__"}

\* "extension in FORMAT_TO_MIME_MAP"
InTable(key, table) == key \in DOMAIN table \/ key \in InheritedKeys

\* The value of an inherited property, which is no string.
NotAString == <<"[object]">>

\* A MIME type is held as the one-element sequence of its text.
\* addImageFromUrl, "Try to determine format from extension" and "If we have
\* a mimeType but not a format": the format and mimeType of the record.
Classify(extension, declared) ==
  LET byExtension == extension # "" /\ InTable(extension, FORMAT_TO_MIME_MAP)
      format1 == IF byExtension THEN extension ELSE "unknown"
      mimeType == IF ~byExtension THEN declared
                  ELSE IF extension \in DOMAIN FORMAT_TO_MIME_MAP
                       THEN <<FORMAT_TO_MIME_MAP[extension]>> ELSE NotAString
      byMime == /\ Present(mimeType) /\ format1 = "unknown"
                /\ mimeType[1] \in DOMAIN MIME_TO_FORMAT_MAP
  IN  [format |-> IF byMime THEN MIME_TO_FORMAT_MAP[mimeType[1]] ELSE format1,
       mimeType |-> mimeType]

\* The number of characters of a text held as lexemes.
RECURSIVE Length(_)
Length(s) == IF s = <<>> THEN 0 ELSE Len(Head(s)) + Length(Tail(s))

\* The arguments of a call: the url, and of the options the declared
\* mimeType, the sourceType and the alt text.
AddInput(imageUrl, mimeType, sourceType, alt) ==
  [imageUrl |-> imageUrl, mimeType |-> mimeType, sourceType |-> sourceType,
   alt |-> alt]
NoAddInput == AddInput(<<>>, Undefined, Undefined, 0)

\* "path.extname(filename).toLowerCase().slice(1)"
ExtensionOf(filename) ==
  LET ext == ExtName(filename)
  IN  IF ext = <<>> THEN "" ELSE Join(ToLowerCase(Tail(ext)))

\* addImageFromUrl: the collection after the call.  The url is dropped when
\* it is a data URI of more than 500 characters, when it resolves to
\* nothing or to something that is not http/https, and when imageSchema
\* rejects the record; otherwise the record is pushed.
AddImageFromUrl(in, base, all) ==
  LET absoluteUrl == ResolveUrl(base, in.imageUrl)
      filename == GetFilenameFromUrl(absoluteUrl)
      class == Classify(ExtensionOf(filename), in.mimeType)
      sourceType == IF Present(in.sourceType) THEN in.sourceType[1] ELSE "img"
      image == [url |-> absoluteUrl, alt |-> in.alt,
                type |-> IF Present(class.mimeType) THEN class.mimeType
                         ELSE <<"image/", IF class.format # "unknown"
                                          THEN class.format ELSE "jpeg">>,
                size |-> NoNumber,
                format |-> class.format, sourceType |-> sourceType,
                mimeType |-> class.mimeType]
  IN  IF StartsWith(in.imageUrl, <<"data:">>) /\ Length(in.imageUrl) > 500
      THEN all
      ELSE IF absoluteUrl = <<>> THEN all
      ELSE IF absoluteUrl[1] \notin {"http://", "https://"} THEN all
      ELSE IF \/ ~SchemaAcceptsUrl(absoluteUrl)
              \/ class.format \notin ImageFormats
              \/ class.mimeType = NotAString
              \/ sourceType \notin SourceTypes
      THEN all
      ELSE Append(all, image)

\* The urls handed to addImageFromUrl: https://x/a with each of a choice of
\* extensions, with and without a query, a relative url, a data URI and an
\* ftp url.
AddExtensions ==
  {<<>>, <<".", "p", "n", "g">>, <<".", "P", "N", "G">>, <<".", "j", "p", "g">>,
   <<".", "j", "p", "e", "g">>, <<".", "g", "i", "f">>, <<".", "x", "y", "z">>,
   <<".", "u", "n", "k", "n", "o", "w", "n", "e", "x", "t">>,
   <<".", "c", "o", "n", "s", "t", "r", "u", "c", "t", "o", "r">>}
RECURSIVE Repeat(_, _)
Repeat(text, n) == IF n = 0 THEN "" ELSE text \o Repeat(text, n - 1)
\* Data URIs of 500 and of 501 characters
DataUrl500 == <<"data:", Repeat("AAAAA", 99)>>
DataUrl501 == <<"data:", Repeat("AAAAA", 99) \o "A">>
AddUrls ==
  {<<"https://", "x", "/", "a">> \o ext \o query :
     ext \in AddExtensions, query \in {<<>>, <<"?", "v", ".", "g", "i", "f">>}}
  \cup {<<"/", "r", ".", "w", "e", "b", "p">>, DataUrl, DataUrl500, DataUrl501,
        <<"ftp://", "h", "/", "a", ".", "p", "n", "g">>}
AddMimeTypes ==
  {Undefined, <<"image/gif">>, <<"image/jpg">>, <<"image/png">>,
   <<"image/x-foo">>, <<"text/html">>}
AddInputs ==
  {AddInput(u, m, st, 1) :
     u \in AddUrls, m \in AddMimeTypes, st \in {Undefined, <<"picture">>}}

AddInit ==
  /\ addIn = NoAddInput
  /\ allImages = <<>>

\* A scan handler calls addImageFromUrl(imageUrl, options, allImages).
AddImage(in) ==
  /\ addIn = NoAddInput
  /\ addIn' = in
  /\ allImages' = AddImageFromUrl(in, PageUrl, allImages)
  /\ UNCHANGED <<limiterVars, extractVars, proxyVars>>

AddNext == \E in \in AddInputs : AddImage(in)

\* ------------------------------------------- imageExtractor.methods.ts
\* The byte of each character used in the markup of the documents (ASCII).
CharCode(c) ==
  CASE c = " " -> 32 [] c = "/" -> 47 [] c = "<" -> 60 [] c = "=" -> 61
    [] c = ">" -> 62 [] c = "a" -> 97 [] c = "b" -> 98 [] c = "d" -> 100
    [] c = "g" -> 103 [] c = "i" -> 105 [] c = "s" -> 115 [] c = "v" -> 118

Base64Alphabet ==
  <<"A", "B", "C", "D", "E", "F", "G", "H", "I", "J", "K", "L", "M", "N", "O",
    "P", "Q", "R", "S", "T", "U", "V", "W", "X", "Y", "Z", "a", "b", "c", "d",
    "e", "f", "g", "h", "i", "j", "k", "l", "m", "n", "o", "p", "q", "r", "s",
    "t", "u", "v", "w", "x", "y", "z", "0", "1", "2", "3", "4", "5", "6", "7",
    "8", "9", "+", "/">>
Sextet(n) == Base64Alphabet[n + 1]

\* Buffer.from(text).toString('base64'): three bytes give four characters,
\* a rest of one or two bytes is padded with "=".
RECURSIVE Base64(_)
Base64(bytes) ==
  IF bytes = <<>> THEN <<>>
  ELSE IF Len(bytes) = 1
  THEN <<Sextet(bytes[1] \div 4), Sextet((bytes[1] % 4) * 16), "=", "=">>
  ELSE IF Len(bytes) = 2
  THEN <<Sextet(bytes[1] \div 4),
         Sextet((bytes[1] % 4) * 16 + bytes[2] \div 16),
         Sextet((bytes[2] % 16) * 4), "=">>
  ELSE <<Sextet(bytes[1] \div 4),
         Sextet((bytes[1] % 4) * 16 + bytes[2] \div 16),
         Sextet((bytes[2] % 16) * 4 + bytes[3] \div 64),
         Sextet(bytes[3] % 64)>>
       \o Base64(SubSeq(bytes, 4, Len(bytes)))

\* "Buffer.from(svgContent).toString('base64').substr(0, 8)"
SvgHash(svgContent) ==
  LET encoded == Base64([k \in 1..Len(svgContent) |-> CharCode(svgContent[k])])
  IN  SubSeq(encoded, 1, IF Len(encoded) < 8 THEN Len(encoded) ELSE 8)

\* An inline <svg> element: its serialized markup, "$.html(svg)", one
\* character per item.
Svg(markup) == Element("svg", 0, <<markup>>)

\* processSvgElement: the record of an inline <svg>, whose url is the page's
\* with the fragment "svg-<hash>.svg".
ProcessSvgElement(svg, pageUrl, all) ==
  LET svgContent == svg.attrs[1]
      filename == <<"svg-">> \o SvgHash(svgContent) \o <<".", "s", "v", "g">>
  IN  IF svgContent = <<>> THEN all
      ELSE Append(all, [url |-> pageUrl \o <<"#">> \o filename, alt |-> 0,
                        type |-> <<"image/svg+xml">>, size |-> NoNumber,
                        format |-> "svg", sourceType |-> "svg",
                        mimeType |-> Undefined])

\* The markup of the inline <svg> elements of the documents.
SvgMarkups ==
  {<<"<", "s", "v", "g", ">", "<", "a", "/", ">", "<", "/", "s", "v", "g", ">">>,
   <<"<", "s", "v", "g", ">", "<", "b", "/", ">", "<", "/", "s", "v", "g", ">">>,
   <<"<", "s", "v", "g", " ", "i", "d", "=", "a", ">", "<", "/", "s", "v", "g", ">">>,
   <<"<", "s", "v", "g", " ", "i", "d", "=", "b", ">", "<", "/", "s", "v", "g", ">">>,
   <<"<", "s", "v", "g", "/", ">">>}

\* <script type="application/ld+json"> with its text.  The text is a list
\* of JSON tokens: the punctuation marks and strings, a string being
\* <<"string">> followed by its characters.
Script(content) == Element("script", 0, <<content>>)
JsonString(chars) == <<"string">> \o chars
IsJsonString(token) == token # <<>> /\ token[1] = "string"
JsonInvalid == [ok |-> FALSE, object |-> FALSE, members |-> <<>>]

\* The members of an object from token i on: "key": "value" pairs separated
\* by commas and closed by "}" at the end of the text.
RECURSIVE ParseMembers(_, _, _)
ParseMembers(tokens, i, members) ==
  IF /\ i + 3 <= Len(tokens)
     /\ IsJsonString(tokens[i]) /\ tokens[i + 1] = <<":">>
     /\ IsJsonString(tokens[i + 2])
  THEN LET found == Append(members, <<Tail(tokens[i]), Tail(tokens[i + 2])>>)
       IN  IF tokens[i + 3] = <<"}">>
           THEN IF i + 3 = Len(tokens)
                THEN [ok |-> TRUE, object |-> TRUE, members |-> found]
                ELSE JsonInvalid
           ELSE IF tokens[i + 3] = <<",">> THEN ParseMembers(tokens, i + 4, found)
           ELSE JsonInvalid
  ELSE JsonInvalid

\* JSON.parse for texts of strings and of objects with string members: the
\* value, or not ok where JSON.parse throws a SyntaxError.
JsonParse(tokens) ==
  IF Len(tokens) = 1 /\ IsJsonString(tokens[1])
  THEN [ok |-> TRUE, object |-> FALSE, members |-> <<>>]
  ELSE IF tokens = <<<<"{">>, <<"}">>>>
  THEN [ok |-> TRUE, object |-> TRUE, members |-> <<>>]
  ELSE IF tokens # <<>> /\ tokens[1] = <<"{">> THEN ParseMembers(tokens, 2, <<>>)
  ELSE JsonInvalid

\* obj[prop]: the value of the last member with that key, undefined without.
PropertyOf(members, prop) ==
  LET at == {k \in 1..Len(members) : members[k][1] = prop}
  IN  IF at = {} THEN Undefined
      ELSE members[CHOOSE k \in at : \A h \in at : h <= k][2]

ImageProps ==
  <<<<"i", "m", "a", "g", "e">>, <<"t", "h", "u", "m", "b", "n", "a", "i", "l">>,
    <<"l", "o", "g", "o">>, <<"p", "h", "o", "t", "o">>,
    <<"p", "r", "i", "m", "a", "r", "y", "I", "m", "a", "g", "e", "O", "f", "P", "a", "g", "e">>>>

\* processObject for the image properties from the n-th on: every truthy
\* string is handed to addImageFromUrl with sourceType 'jsonld'.
RECURSIVE AddImageProps(_, _, _, _)
AddImageProps(members, n, pageUrl, all) ==
  IF n > Len(ImageProps) THEN all
  ELSE LET value == PropertyOf(members, ImageProps[n])
           added == IF Present(value)
                    THEN AddImageFromUrl(AddInput(value, Undefined, <<"jsonld">>, 0),
                                         pageUrl, all)
                    ELSE all
       IN  AddImageProps(members, n + 1, pageUrl, added)

\* extractImagesFromJsonLd: a value that is not an object adds nothing.
ExtractImagesFromJsonLd(json, pageUrl, all) ==
  IF json.object THEN AddImageProps(json.members, 1, pageUrl, all) ELSE all

\* ProcessJsonLdScript letting the SyntaxError of JSON.parse end the scan:
\* what was collected is lost.
ProcessJsonLdScriptThrows(script, pageUrl, all) ==
  LET content == script.attrs[1]
      json == JsonParse(content)
  IN  IF content = <<>> THEN all
      ELSE IF json.ok THEN ExtractImagesFromJsonLd(json, pageUrl, all)
      ELSE <<>>

\* processJsonLdScript: the text is parsed and searched for images; "Not
\* valid JSON, ignore".
ProcessJsonLdScript(script, pageUrl, all) ==
  LET content == script.attrs[1]
      json == JsonParse(content)
  IN  IF content = <<>> THEN all
      ELSE IF json.ok THEN ExtractImagesFromJsonLd(json, pageUrl, all)
      ELSE all

\* The texts of the JSON-LD scripts of the documents:
\* {"image":"https://h/a.png"}        {"image":"https://h/a.png",}
\* {"name":"x","logo":"/l.gif"}       {"image":
\* "x"                                and an empty script.
JsonLdContents ==
  {<<<<"{">>, JsonString(ImageProps[1]), <<":">>, JsonString(UrlA), <<"}">>>>,
   <<<<"{">>, JsonString(ImageProps[1]), <<":">>, JsonString(UrlA), <<",">>, <<"}">>>>,
   <<<<"{">>, JsonString(<<"n", "a", "m", "e">>), <<":">>, JsonString(<<"x">>), <<",">>,
     JsonString(ImageProps[3]), <<":">>, JsonString(<<"/", "l", ".", "g", "i", "f">>),
     <<"}">>>>,
   <<<<"{">>, JsonString(ImageProps[1]), <<":">>>>,
   <<JsonString(<<"x">>)>>,
   <<>>}

\* The elements handed to the handlers of imageExtractor.methods.ts, and
\* the elements scanned by extractWithEnhancedCheerio: an <img> whose src does
\* not resolve and whose srcset has empty entries, a good <img>, and an
\* element with a background.
HandledElements ==
  {Svg(markup) : markup \in SvgMarkups}
  \cup {Script(content) : content \in JsonLdContents}
ScannedElements ==
  {Img(<<"//", "[">>, Undefined, <<",">>, 1), Img(UrlA, Undefined, Undefined, 2),
   Styled(<<"/", "c", ".", "p", "n", "g">>, Undefined)}

\* The handler of an element, applied to the collection.
HandleElement(el, all) ==
  CASE el.tag = "svg" -> ProcessSvgElement(el, PageUrl, all)
    [] el.tag = "script" -> ProcessJsonLdScript(el, PageUrl, all)

\* The handlers are run over the elements of a document, one element at a
\* time in document order, each adding to allImages; removeDuplicates is
\* applied to what they collected.
Handle(el) ==
  /\ Len(html) < MaxElements
  /\ html' = Append(html, el)
  /\ allImages' = HandleElement(el, allImages)
  /\ uniqueImages' = RemoveDuplicates(allImages')
  /\ UNCHANGED <<exPc, images, toEnrich, batchStart, batch, result, returned,
                 netCalls, probeLog, routeVars, addIn, limiterVars, proxyVars>>

\* One turn of an .each(...) pass of extractWithEnhancedCheerio: the
\* element's candidates are pushed to images.
Scan(el) ==
  /\ Len(html) < MaxElements
  /\ html' = Append(html, el)
  /\ images' = images \o ScanElement(PageUrl, el)
  /\ UNCHANGED <<exPc, uniqueImages, toEnrich, batchStart, batch, result, returned,
                 netCalls, probeLog, routeVars, addVars, limiterVars, proxyVars>>

HandlersNext ==
  \/ \E el \in HandledElements : Handle(el)
  \/ \E el \in ScannedElements : Scan(el)

\* ---------------------------------------------------------- specifications
\* Each specification runs one component from its initial state and leaves
\* the others in theirs.
ProxyIdle == ProxyInit /\ InfoInit /\ AddInit /\ allowedDomains = <<>>
InitLimiter == LimiterInit /\ ExtractInit /\ ProxyIdle
InitExtract ==
  /\ \E count \in {0, MAX_REQUESTS_PER_MINUTE} : LimiterInitAfter(count)
  /\ ExtractInit
  /\ ProxyIdle
InitDedup == LimiterInit /\ DedupInit /\ ProxyIdle
InitProxy == LimiterInit /\ ExtractInit /\ ProxyInit /\ InfoInit /\ AddInit
InitAddImage == LimiterInit /\ ExtractInit /\ ProxyIdle

SpecLimiter == InitLimiter /\ [][LimiterNext]_vars
SpecExtract == InitExtract /\ [][ExtractNext]_vars
SpecCancel == InitExtract /\ [][CancelNext]_vars
\* The extraction with its timers: a timer that is set fires, and a settled
\* promise is continued; nothing obliges a remote host to answer.
SpecTimed == InitExtract /\ [][TimedNext]_vars /\ WF_vars(TimerSteps)
SpecDedup == InitDedup /\ [][Deduplicate]_vars
SpecProxy == InitProxy /\ [][ProxyNext]_vars
SpecAddImage == InitAddImage /\ [][AddNext]_vars
SpecHandlers == InitAddImage /\ [][HandlersNext]_vars

\* ------------------------------------------------------------------ claims

\* Position of the first record of imgs that carries url u.
FirstIndex(imgs, u) ==
  CHOOSE j \in 1..Len(imgs) :
    imgs[j].url = u /\ \A h \in 1..(j - 1) : imgs[h].url # u

\* C1: removeDuplicates returns exactly one record per distinct url string
\* (compared as written, case and all), that record is the first of the input
\* with its url, and the output is a subsequence of the input.
C1_FirstOccurrenceKept ==
  exPc = "deduped" =>
    /\ {uniqueImages[k].url : k \in 1..Len(uniqueImages)}
         = {images[j].url : j \in 1..Len(images)}
    /\ \A k, h \in 1..Len(uniqueImages) :
         k # h => uniqueImages[k].url # uniqueImages[h].url
    /\ \A k \in 1..Len(uniqueImages) :
         uniqueImages[k] = images[FirstIndex(images, uniqueImages[k].url)]
    /\ \A k, h \in 1..Len(uniqueImages) :
         k < h => FirstIndex(images, uniqueImages[k].url)
                    < FirstIndex(images, uniqueImages[h].url)

\* C1's case: a list with a repeated url whose later copy differs from the
\* first, and two urls that differ in case only, both kept.
C1_Witness ==
  /\ exPc = "deduped"
  /\ Len(uniqueImages) = 2 /\ Len(images) = 3
  /\ images[1].url = UrlA /\ images[2].url = UrlAUpper /\ images[3].url = UrlA
  /\ images[3].alt # images[1].alt
  /\ uniqueImages = <<images[1], images[2]>>

\* C2: the list extract returns is as long as the deduplicated list; the
\* records after the first METADATA_LIMIT = 50 are in it as they were, and no
\* probe was issued for them.
C2_LaterRecordsReturnedUnenriched ==
  exPc = "done" =>
    /\ Len(returned) = Len(uniqueImages)
    /\ \A k \in 1..Len(uniqueImages) :
         k > METADATA_LIMIT =>
           /\ returned[k] = uniqueImages[k]
           /\ \A c \in netCalls : c[2] # uniqueImages[k].url

\* C6: enrichment yields one record per record it was given, in the same
\* order and with the same url, whatever the probes come back with.
C6_OneRecordPerInput ==
  /\ Len(result) <= Len(toEnrich)
  /\ \A k \in 1..Len(result) : result[k].url = toEnrich[k].url
  /\ exPc = "done" =>
       /\ returned = result
       /\ Len(returned) = Len(toEnrich)

\* C6's case: a finished enrichment of several records in which one probe
\* failed twice and another succeeded.
C6_Witness ==
  /\ exPc = "done"
  /\ Len(returned) >= 2
  /\ \E k, h \in 1..Len(probeLog) :
       /\ probeLog[k].head = "error" /\ probeLog[k].get = "error"
       /\ probeLog[h].head = "ok" /\ returned[h].size = Num(12)
       /\ k < h

\* A probe that ended in failure: the HEAD answered a non-success status, or
\* the HEAD threw (error, timeout) and the GET threw, answered a non-success
\* status, or failed while its body was read.
ProbeFailed(lg) ==
  \/ lg.head = "notok"
  \/ lg.head = "error" /\ (lg.get \in {"error", "notok"} \/ lg.body = "error")

\* C7: a record whose HEAD and GET both fail is returned equal to its input
\* record, is not dropped, and the extract call does not fail because of it.
C7_FailedProbeReturnsInput ==
  /\ \A k \in 1..Len(probeLog) :
       ProbeFailed(probeLog[k]) => k <= Len(result) /\ result[k] = toEnrich[k]
  /\ \A k \in 1..Len(batch) :
       (batch[k].pc = "done" /\ ProbeFailed(batch[k].log)) =>
         batch[k].out = batch[k].image
  /\ exPc = "done" => returned = result /\ Len(returned) = Len(toEnrich)
  /\ exPc = "failed" => netCalls = {}

\* C7's case: an extract call that returned although the HEAD of one of its
\* records threw and its GET answered a non-success status.
C7_Witness ==
  /\ exPc = "done"
  /\ \E k \in 1..Len(probeLog) :
       /\ probeLog[k].head = "error" /\ probeLog[k].get = "notok"
       /\ returned[k] = toEnrich[k]

\* C8: no outbound call is issued for a record whose url is a data URI, and
\* the record comes out of enrichment unchanged, its size unset.
C8_DataUriSkipsEnrichment ==
  /\ \A c \in netCalls : c[2][1] # "data:"
  /\ \A k \in 1..Len(result) :
       toEnrich[k].url[1] = "data:" =>
         result[k] = toEnrich[k] /\ result[k].size = NoNumber

\* C8's case: a returned list holding a data-URI record beside a record that
\* a probe enriched.
C8_Witness ==
  /\ exPc = "done"
  /\ \E k, h \in 1..Len(returned) :
       /\ returned[k].url = DataUrl
       /\ returned[h].size.kind = "number"
       /\ <<"HEAD", returned[h].url>> \in netCalls

\* C9: no record that enrichment produces has a negative size, whatever
\* Content-Length header and body length the server sends.
C9_SizeNeverNegative ==
  \A k \in 1..Len(result) :
    result[k].size.kind = "number" => result[k].size.v >= 0

\* C10: when the upstream fetch succeeded and its content-type is absent or
\* does not begin with image/, the proxy call ends with the NotAnImage error
\* (400) and relays no byte of the upstream body.
C10_NotAnImageRejected ==
  (/\ pxUp.kind = "response" /\ ResponseOk(pxUp.status)
   /\ (pxUp.contentType = Null \/ ~StartsWith(pxUp.contentType, ImagePrefix)))
  => /\ pxPc = "done"
     /\ pxRes.status = 400
     /\ pxRes.error = "URL does not point to a valid image"
     /\ pxRes.bytes = 0
     /\ pxRes.sends = 1

\* C10's case: a 200 text/html upstream answered with the 400 error.
C10_Witness ==
  /\ pxPc = "done"
  /\ pxUp.kind = "response" /\ pxUp.status = 200 /\ pxUp.hasBody
  /\ pxUp.contentType = TextHtml
  /\ pxRes.status = 400 /\ pxRes.bytes = 0

\* C3: whenever MAX_REQUESTS_PER_MINUTE + 1 = 21 calls are issued within one
\* second, the 21st is delayed, and until the end of the current window at
\* least, wherever that second falls relative to the window start.
C3_BurstAlwaysDelayed ==
  lastCall.burst =>
    lastCall.delayed /\ lastCall.wakeAt >= lastCall.windowEnd

\* C4: a call is delayed only in a run in which some 60-second span has held
\* more than 20 calls; a run without such a span never delays a call.
C4_NoDelayWithoutOverload == everDelayed => spanOverloaded

\* C4's case: 21 calls and more issued on both sides of a window rollover, no
\* 60-second span holding more than 20 of them, and none delayed.
C4_Witness ==
  /\ Len(callTimes) = MAX_REQUESTS_PER_MINUTE + 1
  /\ callTimes[1] < WINDOW_MS /\ now >= WINDOW_MS
  /\ ~spanOverloaded /\ ~everDelayed
  /\ requestCount > 1

IsDomainOrSubdomain(host, d) ==
  \/ host = d
  \/ /\ Len(host) > Len(d) + 1
     /\ host[Len(host) - Len(d)] = "."
     /\ SubSeq(host, Len(host) - Len(d) + 1, Len(host)) = d

HostOutsideAllowList(host, allowed) ==
  Len(allowed) > 0 /\ \A k \in 1..Len(allowed) : ~IsDomainOrSubdomain(host, allowed[k])

IsHttpProtocol(protocol) == protocol \in {"http:", "https:"}

\* C11: a proxy request whose url is unparseable, or has a scheme other than
\* http/https, or (with a non-empty allow-list) a host that is neither an
\* allowed domain nor a subdomain of one, is answered with the InvalidUrl
\* (400) or DomainNotAllowed (403) error and no outbound request is issued;
\* with an empty allow-list every http/https url has its request issued.
C11_ProxyRejectsBeforeFetch ==
  pxPc # "start" =>
    /\ (pxReq.form = "unparseable" \/
        (pxReq.form = "url" /\ ~IsHttpProtocol(pxReq.protocol))) =>
         /\ pxFetches = 0 /\ pxPc = "done"
         /\ pxRes.status = 400 /\ pxRes.sends = 1 /\ pxRes.bytes = 0
    /\ (/\ pxReq.form = "url" /\ IsHttpProtocol(pxReq.protocol)
        /\ HostOutsideAllowList(pxReq.hostname, allowedDomains)) =>
         /\ pxFetches = 0 /\ pxPc = "done"
         /\ pxRes.status = 403 /\ pxRes.sends = 1 /\ pxRes.bytes = 0
    /\ (/\ pxReq.form = "url" /\ IsHttpProtocol(pxReq.protocol)
        /\ allowedDomains = <<>>) => pxFetches = 1

\* C11's case: with ex.com allowed, a request for notex.com was refused with
\* 403 and nothing was fetched.
C11_Witness ==
  /\ pxPc = "done"
  /\ allowedDomains = <<ExCom>>
  /\ pxReq.form = "url" /\ pxReq.protocol = "https:"
  /\ pxReq.hostname = <<"notex", ".", "com">>
  /\ pxRes.status = 403 /\ pxFetches = 0

\* C12: the info call validates its url as the proxy does: a url with a
\* scheme other than http/https is answered with InvalidUrl (400), a host
\* outside a non-empty allow-list with DomainNotAllowed (403), and in both
\* cases no HEAD request is issued.
C12_InfoValidatesLikeProxy ==
  (infoPc # "start" /\ infoReq.form = "url") =>
    /\ ~IsHttpProtocol(infoReq.protocol) =>
         infoFetches = 0 /\ (infoPc = "done" => infoRes.status = 400)
    /\ (IsHttpProtocol(infoReq.protocol)
        /\ HostOutsideAllowList(infoReq.hostname, allowedDomains)) =>
         infoFetches = 0 /\ (infoPc = "done" => infoRes.status = 403)

\* ------------------------------------------------ claims: extract outcomes
\* C13: an extract call fails only when its input is rejected or its page
\* fetch fails.  Once the page has been fetched the call cannot fail: however
\* the probes of its records go, it ends with status 200 and the list it
\* built (possibly empty).  When the page fetch fails or returns a non-2xx
\* status, the call ends with an error status, never with 200 and an empty
\* list.
C13_FatalOnlyOnPageFailure ==
  /\ exPc \in {"batch", "pause", "done"} =>
       exError = NoFailure /\ exRes.status \in {0, 200}
  /\ exPc = "done" =>
       /\ exRes.status = 200
       /\ exRes.images = returned
       /\ Len(returned) = Len(toEnrich)
  /\ exPc = "failed" =>
       /\ exError \in PageFailures
       /\ exRes.status >= 400
       /\ exRes.images = <<>>
       /\ netCalls = {}
  /\ exPc = "rejected" => exReq = "malformed" /\ exRes.status = 400
  /\ exRes.status >= 400 => exPc \in {"failed", "rejected"}

\* C13's case: the scan dropped the candidates it could not resolve, the one
\* record's probe failed, and the call still answered 200 with its list.
C13_Witness ==
  /\ exPc = "done"
  /\ html = BrokenPage
  /\ Len(probeLog) = 1 /\ ProbeFailed(probeLog[1])
  /\ exRes.status = 200 /\ Len(exRes.images) = 1

\* C14: the failure categories of extract are told apart by the response: a
\* DNS/connect failure, a non-2xx page and a timeout never get the same
\* response as a failure of another category.
C14_FailureCategoriesDistinct ==
  exPc = "failed" =>
    \A other \in PageFailures :
      other.category # exError.category => ErrorResponse(other.message) # exRes

\* C15: every record that extract returns has a non-empty url that is an
\* absolute http/https URL or a data URI; a candidate that resolves to
\* another scheme (javascript:, mailto:, ftp:) is never emitted.
C15_ReturnedUrlsHttpOrData ==
  \A k \in 1..Len(returned) :
    /\ returned[k].url # <<>>
    /\ returned[k].url[1] \in {"http://", "https://", "data:"}

AbsoluteOn(host, path) == <<"https://", host>> \o path

\* C17: the page <img src="/a.jpg" data-src="/a-hd.jpg"> <picture><source
\* srcset="/b.webp 1x, /b2.webp 2x"></picture> <div style="background-image:
\* url('/c.png')"> at https://ex.com/page yields exactly the four records
\* a.jpg (jpg, img), a-hd.jpg (jpg, img), b.webp (webp, picture) and c.png
\* (png, background).
C17_ScenarioYieldsFourRecords ==
  (exPc = "done" /\ html = ScenarioPage) =>
    /\ Len(returned) = 4
    /\ {<<returned[k].url, returned[k].format, returned[k].sourceType>> :
          k \in 1..Len(returned)}
       = {<<AbsoluteOn("ex.com", <<"/", "a", ".", "j", "p", "g">>), "jpg", "img">>,
          <<AbsoluteOn("ex.com", <<"/", "a-hd", ".", "j", "p", "g">>), "jpg", "img">>,
          <<AbsoluteOn("ex.com", <<"/", "b", ".", "w", "e", "b", "p">>), "webp", "picture">>,
          <<AbsoluteOn("ex.com", <<"/", "c", ".", "p", "n", "g">>), "png", "background">>}

\* The extension of the path of an absolute url, query and fragment ignored,
\* in lower case and without its dot.
PathExtension(url) == ExtensionOf(GetFilenameFromUrl(url))

\* The classification that the precedence "extension in the table, then
\* declared MIME in the table, then unknown with no MIME" gives.
ClassifiedByPrecedence(extension, declared) ==
  IF extension \in DOMAIN FORMAT_TO_MIME_MAP
  THEN [format |-> extension, mimeType |-> <<FORMAT_TO_MIME_MAP[extension]>>]
  ELSE IF Present(declared) /\ declared[1] \in DOMAIN MIME_TO_FORMAT_MAP
  THEN [format |-> MIME_TO_FORMAT_MAP[declared[1]], mimeType |-> declared]
  ELSE [format |-> "unknown", mimeType |-> Undefined]

\* C16: a url that resolves to an http/https url is recorded with the format
\* and the MIME type of the fixed precedence: the table entry of the path's
\* extension if there is one, otherwise the declared MIME and its format if
\* the declared MIME is in the table, otherwise (unknown, no MIME).
C16_ClassifiedByPrecedence ==
  LET absoluteUrl == ResolveUrl(PageUrl, addIn.imageUrl)
  IN  (addIn # NoAddInput /\ absoluteUrl # <<>>
         /\ absoluteUrl[1] \in {"http://", "https://"}) =>
        /\ Len(allImages) = 1
        /\ [format |-> allImages[1].format, mimeType |-> allImages[1].mimeType]
           = ClassifiedByPrecedence(PathExtension(absoluteUrl), addIn.mimeType)

\* C18: removeDuplicates is idempotent: applied to its own output it returns
\* that output, the same records in the same order.
C18_DedupIdempotent ==
  exPc = "deduped" => RemoveDuplicates(uniqueImages) = uniqueImages

\* C18's case: the first run dropped a repeat from between two records that
\* it kept, and the second run returns those two, in their order.
C18_Witness ==
  /\ exPc = "deduped"
  /\ Len(images) = 3 /\ images[2].url = images[1].url
  /\ uniqueImages = <<images[1], images[3]>>
  /\ RemoveDuplicates(RemoveDuplicates(images)) = <<images[1], images[3]>>

\* The outbound calls an extraction has issued: the page fetch, once
\* rateLimit has returned, and the HEAD and GET probes.
OutboundCalls ==
  (IF exPc \in {"start", "rejected", "limited"} THEN 0 ELSE 1) + Cardinality(netCalls)

\* C19: every outbound call of an extraction, the page fetch and each HEAD
\* and GET probe, is preceded by its own pass through the rate limiter: the
\* extraction never has more outbound calls than passes.
C19_EveryOutboundCallPassesLimiter == OutboundCalls <= limiterPasses

\* The enrichment calls in flight: the probes of the current batch that have
\* not settled, each of which waits for one response at a time.
InFlight == {k \in 1..Len(batch) : batch[k].pc # "done"}

\* The positions in the list handed to fetchImageMetadata of the records
\* for which a call has been issued.
CalledPositions ==
  {k \in 1..Len(toEnrich) : \E c \in netCalls : c[2] = toEnrich[k].url}

\* C20: at most concurrentRequests = 5 enrichment calls are in flight; calls
\* exist only for records up to the end of the current batch, a batch is in
\* flight only when every record of the batches before it has its result,
\* during the pause nothing is in flight, and the pause is taken only when
\* records remain after the batch.
C20_BatchesOfFiveInTurn ==
  /\ Cardinality(InFlight) <= concurrentRequests
  /\ \A k \in CalledPositions : k <= batchStart + concurrentRequests
  /\ InFlight # {} => exPc = "batch" /\ Len(result) = batchStart
  /\ exPc = "pause" =>
       /\ batch = <<>>
       /\ Len(result) = batchStart + concurrentRequests
       /\ batchStart + concurrentRequests < Len(toEnrich)
  /\ exPc = "done" => Len(result) = Len(toEnrich)

\* C20's case: the first batch of five has settled, the pause has elapsed
\* and the one record of the second, last batch is being probed.
C20_Witness ==
  /\ exPc = "batch"
  /\ Len(toEnrich) = concurrentRequests + 1
  /\ batchStart = concurrentRequests
  /\ Len(result) = concurrentRequests
  /\ InFlight = {1}
  /\ CalledPositions = 1..(concurrentRequests + 1)

\* C21: every outbound call of an extraction is ended by a timeout, so an
\* extraction whose page fetch has been issued eventually answers, with the
\* list or with an error, whatever the remote hosts do.
C21_ExtractionAlwaysEnds == (exPc = "page") ~> (exPc \in {"done", "failed"})

\* C22: when the client has disconnected and a batch is in flight or the
\* loop is pausing between batches, no further batch is started and the
\* extraction does not run to its end with the list.
C22_CancelStopsExtraction ==
  [][(exClosed /\ exPc \in {"batch", "pause"}) =>
       (batchStart' = batchStart /\ exPc' # "done")]_vars

\* C23: once a byte of the image has been relayed, no later step of the proxy
\* call sets a status or sends a JSON error body, a failure only destroys
\* the stream; and a finished call has produced exactly one response, either
\* one that was ended or one that was begun and destroyed.
C23_NoStatusAfterFirstByte ==
  /\ pxRes.bytes > 0 =>
       /\ pxRes.status = 200
       /\ pxRes.error = ""
       /\ pxRes.contentType = pxUp.contentType
       /\ pxRes.sends = IF pxRes.state = "ended" THEN 1 ELSE 0
  /\ pxRes.sends <= 1
  /\ pxPc = "done" => (pxRes.sends = 1) # (pxRes.state = "destroyed")

\* C23's case: the pipe failed after a chunk had been relayed, and the call
\* ended with the stream destroyed and the status of the relayed image.
C23_Witness ==
  /\ pxPc = "done"
  /\ pxRes.bytes > 0
  /\ pxRes.state = "destroyed"
  /\ pxRes.status = 200 /\ pxRes.error = ""

\* C30: the directive Cache-Control: public, max-age=86400 is on a response
\* only if the response relays an accepted image; no response that carries
\* a JSON error body has it.
C30_CacheControlOnlyOnImages ==
  pxRes.error # "" => pxRes.cacheControl = 0

\* C24: an enriched record has every field of its input record with the same
\* value, except size and type, and a size or type that had a value before
\* enrichment still has one afterwards.
C24_EnrichmentOnlyAdds ==
  \A k \in 1..Len(result) :
    /\ [result[k] EXCEPT !.size = NoNumber, !.type = Undefined]
         = [toEnrich[k] EXCEPT !.size = NoNumber, !.type = Undefined]
    /\ toEnrich[k].type # Undefined => result[k].type # Undefined
    /\ toEnrich[k].size # NoNumber => result[k].size # NoNumber

\* C25: the resolver returns a data URI unchanged whatever its length; the
\* caller records a data URI of at most 500 characters with its url
\* unchanged and records nothing for a longer one.
C25_DataUriPolicy ==
  (addIn # NoAddInput /\ StartsWith(addIn.imageUrl, <<"data:">>)) =>
    /\ ResolveUrl(PageUrl, addIn.imageUrl) = addIn.imageUrl
    /\ Length(addIn.imageUrl) > 500 => allImages = <<>>
    /\ Length(addIn.imageUrl) <= 500 =>
         Len(allImages) = 1 /\ allImages[1].url = addIn.imageUrl

\* The inline <svg> elements handled so far, and their markups.
SvgsHandled == {k \in 1..Len(html) : html[k].tag = "svg"}

\* C26: inline <svg> elements of a page with different markup get different
\* pseudo-URLs, so that as many svg records survive removeDuplicates as the
\* page has distinct svg markups; and equal markup gets the same pseudo-URL
\* whenever it is scanned.
C26_DistinctSvgDistinctUrl ==
  /\ Cardinality({uniqueImages[k].url :
                    k \in {j \in 1..Len(uniqueImages) : uniqueImages[j].sourceType = "svg"}})
       = Cardinality({html[k].attrs[1] : k \in SvgsHandled})
  /\ \A i, j \in SvgsHandled :
       html[i].attrs[1] = html[j].attrs[1] =>
         ProcessSvgElement(html[i], PageUrl, <<>>) = ProcessSvgElement(html[j], PageUrl, <<>>)

\* C27: of a srcset every comma-separated entry gives its first
\* whitespace-delimited token as the url, also when the srcset has one entry
\* and no comma, and a src is one url whatever it contains: the page <img
\* srcset="/a.jpg 2x"> <img src="/i,w_1/b.jpg"> <img srcset="/c.jpg 1x,
\* /d.jpg 2x"> yields the urls /a.jpg, /i,w_1/b.jpg, /c.jpg and /d.jpg of
\* its host.
C27_SrcsetEntriesSrcWhole ==
  (exPc \in {"batch", "pause", "done"} /\ html = SrcsetPage) =>
    {images[k].url : k \in 1..Len(images)}
      = {AbsoluteOn("ex.com", <<"/", "a", ".", "j", "p", "g">>),
         AbsoluteOn("ex.com", <<"/", "i", ",", "w_1", "/", "b", ".", "j", "p", "g">>),
         AbsoluteOn("ex.com", <<"/", "c", ".", "j", "p", "g">>),
         AbsoluteOn("ex.com", <<"/", "d", ".", "j", "p", "g">>)}

\* The stages of one record's probe, in the order the code passes them.
StageRank(pc) == CASE pc = "head" -> 1 [] pc = "get" -> 2 [] pc = "body" -> 3 [] OTHER -> 4

\* C29: a record's probe only moves forward through HEAD, GET, body and
\* return, so each request is issued at most once; the GET is issued only by
\* the step in which that record's HEAD threw (error or abort); a HEAD
\* answered with a non-success status returns the record unchanged with no
\* GET; a data record issues no request at all.
C29_ProbeOrdering ==
  [][\A k \in 1..Len(batch) :
       k <= Len(batch') =>
         /\ batch'[k].pc # batch[k].pc => StageRank(batch'[k].pc) > StageRank(batch[k].pc)
         /\ <<"HEAD", batch[k].image.url>> \in netCalls' =>
              <<"HEAD", batch[k].image.url>> \in netCalls
         /\ (<<"GET", batch[k].image.url>> \in netCalls'
               /\ <<"GET", batch[k].image.url>> \notin netCalls) =>
              (batch[k].pc = "head" /\ batch'[k].log.head = "error")
         /\ (batch[k].pc = "head" /\ batch'[k].log.head = "notok") =>
              /\ batch'[k].pc = "done"
              /\ batch'[k].out = batch[k].image
              /\ <<"GET", batch[k].image.url>> \notin netCalls'
         /\ IsDataUrl(batch[k].image.url) =>
              \A c \in netCalls' : c[2] # batch[k].image.url]_vars

\* An extraction returned one record whose HEAD was answered with a
\* non-success status, unchanged and without a GET, and one whose HEAD threw
\* and whose GET was issued and answered.
C29_Witness ==
  /\ exPc = "done"
  /\ \E k, h \in 1..Len(probeLog) :
       /\ probeLog[k].head = "notok" /\ probeLog[k].get = "none"
       /\ returned[k] = toEnrich[k]
       /\ <<"HEAD", toEnrich[k].url>> \in netCalls
       /\ <<"GET", toEnrich[k].url>> \notin netCalls
       /\ probeLog[h].head = "error" /\ probeLog[h].get = "ok"
       /\ <<"GET", toEnrich[h].url>> \in netCalls

IsPrefix(s, t) == Len(s) <= Len(t) /\ SubSeq(t, 1, Len(s)) = s

\* What the elements of doc put into allImages and into images when each
\* is handled on its own, in document order.
RECURSIVE HandledAlone(_)
HandledAlone(doc) ==
  IF doc = <<>> THEN <<>>
  ELSE (IF Head(doc).tag \in {"svg", "script"}
        THEN HandleElement(Head(doc), <<>>) ELSE <<>>) \o HandledAlone(Tail(doc))
RECURSIVE ScannedAlone(_)
ScannedAlone(doc) ==
  IF doc = <<>> THEN <<>>
  ELSE (IF Head(doc).tag \in {"svg", "script"}
        THEN <<>> ELSE ScanElement(PageUrl, Head(doc))) \o ScannedAlone(Tail(doc))

\* C28: no handler removes or changes a record collected before it ran; a
\* JSON-LD script that is not valid JSON and an <img> whose sources all fail
\* add nothing and change nothing; and whatever failed before or after, the
\* collections hold exactly what every element contributes on its own.
C28_HandlerIsolation ==
  [][/\ IsPrefix(allImages, allImages') /\ IsPrefix(images, images')
     /\ allImages' = HandledAlone(html')
     /\ images' = ScannedAlone(html')
     /\ LET el == html'[Len(html')]
        IN  /\ (el.tag = "script" /\ ~JsonParse(el.attrs[1]).ok) =>
                 (allImages' = allImages /\ images' = images)
            /\ (el.tag = "img" /\ el.attrs[1] = <<"//", "[">>) =>
                 (allImages' = allImages /\ images' = images)]_vars

\* An svg was collected, then a JSON-LD script that is not valid JSON was
\* handled, then an <img>: the svg's record is still the first of its
\* collection and the <img>'s record was collected too.
C28_Witness ==
  /\ Len(html) = 3
  /\ html[1].tag = "svg"
  /\ html[2].tag = "script" /\ html[2].attrs[1] # <<>> /\ ~JsonParse(html[2].attrs[1]).ok
  /\ html[3] = Img(UrlA, Undefined, Undefined, 2)
  /\ Len(allImages) = 1 /\ allImages[1].sourceType = "svg"
  /\ Len(images) = 1 /\ images[1].url = UrlA

====
